---- MODULE Spec2Model ----
(***************************************************************************)
(* The AstroBots arena (classes/AstroArena.cpp, AstroArena.h, AstroTypes.h) *)
(* as a state machine.                                                     *)
(*                                                                         *)
(* Units.  The program computes in float; the model computes in integers:  *)
(*   - positions and velocities in whole world units;                      *)
(*   - angles in whole degrees, cosine and sine rounded to -1, 0, 1;       *)
(*   - fuel in units of 1/FuelUnit, the cost of a thrust parameter of 1    *)
(*     (the DSL stores a power P as (int)(P*10), Thrust charges            *)
(*     power * THRUST_FUEL_COST), so that every fuel amount is exact;      *)
(*   - asteroid sizes in half units (MEDIUM_ASTEROID_SIZE is 37.5).        *)
(* The narrow-phase tests of cute_c2 (c2CapsuletoPoly, c2RaytoCapsule,     *)
(* c2RaytoPoly, c2TOI) are library code on randomly generated polygons:    *)
(* their results are inputs of the actions, drawn from every outcome that  *)
(* the positions of the shapes allow.                                      *)
(***************************************************************************)
EXTENDS Integers, Sequences, FiniteSets, TLC

\* ------------------------------------------------------------ constants
ASTROBOTS_W == 2048
ASTROBOTS_H == 2048
ASTRO_MAX_TURNS == 10000
ASTRO_START_HP == 10
\* THRUST(P) stores (int)(P*10); the VM hands P/10.0 to Thrust.
PowerDen == 10
\* THRUST_FUEL_COST = 0.05f = 1/20.
ThrustFuelCostDen == 20
\* One fuel point is FuelUnit model units: a thrust parameter of 1 costs 1 unit.
FuelUnit == PowerDen * ThrustFuelCostDen
ASTRO_START_FUEL == 100 * FuelUnit
\* THRUST_POWER = 0.25f = 1/4.
ThrustPowerDen == 4
MAX_VELOCITY == 4
ROTATION_SPEED == 3
\* DRAG = 0.98f, in percent.
DRAG == 98
PHASER_RANGE == 500
PHASER_DAMAGE == 1
PHASER_COOLDOWN == 30
PHOTON_SPEED == 20
PHOTON_DAMAGE == 3
PHOTON_COOLDOWN == 60
PHOTON_LIFETIME == 100
ASTRO_SCAN_RANGE == 600
\* Sizes in half units: 75.0f, 37.5f, 18.0f.
LARGE_ASTEROID_SIZE == 150
MEDIUM_ASTEROID_SIZE == 75
SMALL_ASTEROID_SIZE == 36
LARGE_ASTEROID_HP == 3
MEDIUM_ASTEROID_HP == 2
SMALL_ASTEROID_HP == 1
FUEL_PICKUP_AMOUNT == 30 * FuelUnit
FUEL_HIT_REWARD == 5 * FuelUnit
SHIP_DEBRIS_LIFETIME == 60
SHIP_DEBRIS_COUNT_PER_EDGE == 2
gridCellSize == 128
\* BreakAsteroid: Distance(...) < 50.0f.
PickupRadius == 50
\* PhaserBeam lifetime set by FirePhaser.
BeamLifetime == 3
\* MakeShipCapsule: halfLen 15, radius 7.5, in half units.
ShipHalfLen2 == 30
ShipRadius2 == 15
\* HandleTorpedoes: torpCircle.r = 5.0f, in half units.
TorpedoRadius2 == 10

\* --------------------------------------------------------------- bounds
\* Turns a run goes through.
MaxTurns == 3
\* Action primitives issued over a run.
MaxOps == 1
\* Resolution of a time of impact: c2TOI's toi in [0, 1] is k / ToiSteps.
ToiSteps == 1
\* Resolution of a ray parameter: c2Raycast's t in [0, PHASER_RANGE) is
\* k * PHASER_RANGE / RaySteps, k < RaySteps.
RaySteps == 2

\* ----------------------------------------------------------- arithmetic
Abs(n) == IF n < 0 THEN -n ELSE n

Min2(a, b) == IF a <= b THEN a ELSE b

Max2(a, b) == IF a >= b THEN a ELSE b

\* C's integer and float division truncate toward zero.
TruncDiv(a, b) == IF a >= 0 THEN a \div b ELSE -((-a) \div b)

\* C's % and std::fmod keep the sign of the dividend.
CMod(a, b) == IF a >= 0 THEN a % b ELSE -((-a) % b)

\* ------------------------------------------------------------------ float
\* Where the rounding of a float decides, a coordinate is counted in steps
\* of 1/Fine of a unit.  A float holds 24 significant bits: every count
\* below 2^24 is a float, and from there on the spacing doubles with each
\* power of two.
Fine == 2^15

RECURSIVE FloatUlp(_)
FloatUlp(v) == IF v < 2^24 THEN 1 ELSE 2 * FloatUlp(v \div 2)

IsFloat(v) == Abs(v) % FloatUlp(Abs(v)) = 0

\* The float nearest to v >= 0, a tie going to the even one.
FloatRound(v) ==
    LET u == FloatUlp(v)
        lo == (v \div u) * u
        r == v - lo
    IN IF 2 * r < u THEN lo
       ELSE IF 2 * r > u THEN lo + u
       ELSE IF (lo \div u) % 2 = 0 THEN lo ELSE lo + u

FloorSqrt(n) == CHOOSE r \in 0..n : r * r <= n /\ (r + 1) * (r + 1) > n

CeilSqrt(n) == CHOOSE r \in 0..n : r * r >= n /\ (r = 0 \/ (r - 1) * (r - 1) < n)

\* ------------------------------------------------------ helper functions
\* Variant: the angle is handed back as it came.
NormalizeAngleNot(angle) == angle

NormalizeAngle(angle) == angle % 360

AngleDifference(from, to) ==
    LET d == CMod(to - from, 360)
    IN IF d < -180 THEN d + 360 ELSE IF d > 180 THEN d - 360 ELSE d

\* The square of Distance: the code compares distances, the model their squares.
Distance2(x1, y1, x2, y2) == (x2 - x1) * (x2 - x1) + (y2 - y1) * (y2 - y1)

\* std::atan2 in degrees, to the nearest multiple of 45 in (-180, 180].
AngleTo(x1, y1, x2, y2) ==
    LET dx == x2 - x1
        dy == y2 - y1
        ax == Abs(dx)
        ay == Abs(dy)
        \* tan(22.5 deg) is about 5/12, tan(67.5 deg) about 12/5
        oct == IF 12 * ay <= 5 * ax THEN 0
               ELSE IF 5 * ay < 12 * ax THEN 45 ELSE 90
    IN IF dx = 0 /\ dy = 0 THEN 0
       ELSE IF dx >= 0 /\ dy >= 0 THEN oct
       ELSE IF dx < 0 /\ dy >= 0 THEN 180 - oct
       ELSE IF dx < 0 /\ dy < 0 THEN (IF oct = 0 THEN 180 ELSE oct - 180)
       ELSE -oct

\* std::cos and std::sin of an angle in degrees, rounded to -1, 0, 1.
Cos(angle) ==
    LET a == angle % 360
    IN IF a <= 60 \/ a >= 300 THEN 1 ELSE IF a >= 120 /\ a <= 240 THEN -1 ELSE 0

Sin(angle) == Cos(angle + 270)

\* ---------------------------------------------------------------- state
VARIABLES
    ships,        \* std::vector<ShipState>
    asteroids,    \* std::vector<Asteroid>
    torpedoes,    \* std::vector<PhotonTorpedo>
    phaserBeams,  \* std::vector<PhaserBeam>
    particles,    \* std::vector<Particle>: its size (no claim reads a particle)
    shipDebris,   \* std::vector<ShipDebrisSegment>
    signals,      \* std::vector<std::pair<float,float>>
    log,          \* the lines handed to the log sink
    gridCols, gridRows,
    gridAsteroids, gridShips,  \* the buckets, as <<cell, index>> in push order
    phase,        \* where the turn stands
    turn,         \* turns started
    opsLeft,      \* action primitives the run may still issue
    lastOp,       \* the operation that made this state, and its arguments
    impacts,      \* what the last HandleTorpedoes pass resolved, per torpedo
    gameOver,     \* ClassGame::gameOver
    gameWinner,   \* ClassGame::gameWinner: a ship's number, -1 for none
    probe         \* the arguments and results of a function applied on its own

vars == <<ships, asteroids, torpedoes, phaserBeams, particles, shipDebris,
          signals, log, gridCols, gridRows, gridAsteroids, gridShips,
          phase, turn, opsLeft, lastOp, impacts, gameOver, gameWinner, probe>>

WorldState == <<ships, asteroids, torpedoes, phaserBeams, particles, shipDebris,
                signals, log>>

\* The arena's entity collections, as the helpers below hand them on.
World == [ships |-> ships, asteroids |-> asteroids, particles |-> particles,
          shipDebris |-> shipDebris, log |-> log]

ShipIds == 1..Len(ships)

\* A line of the log: what happened, to or by which ship (0: none).
LogLine(kind, who, whom) == [kind |-> kind, who |-> who, whom |-> whom]

\* ------------------------------------------------------ broad-phase grid
\* Variant: the cell coordinates are taken as they come.
CellIndexFlat(cols, rows, cx, cy) ==
    IF cols <= 0 \/ rows <= 0 THEN -1 ELSE cy * cols + cx

CellIndex(cols, rows, cx, cy) ==
    IF cols <= 0 \/ rows <= 0 THEN -1
    ELSE LET x == CMod(CMod(cx, cols) + cols, cols)
             y == CMod(CMod(cy, rows) + rows, rows)
         IN y * cols + x

\* std::floor(x / gridCellSize): \div rounds down, and the division by a
\* power of two is exact.
PosToCellFine(x, y) == <<x \div (gridCellSize * Fine), y \div (gridCellSize * Fine)>>

\* PosToCell of a position in whole units.
PosToCell(x, y) == PosToCellFine(x * Fine, y * Fine)

\* std::ceil(ASTROBOTS_W / (float)gridCellSize)
GridDim(extent) == (extent + gridCellSize - 1) \div gridCellSize

RECURSIVE BinAll(_, _, _, _)
\* Variant: the binning loop takes the dead items too.
BinAll(items, i, cols, rows) ==
    IF i > Len(items) THEN <<>>
    ELSE LET c == PosToCell(items[i].x, items[i].y)
         IN <<[cell |-> CellIndex(cols, rows, c[1], c[2]), idx |-> i]>>
            \o BinAll(items, i + 1, cols, rows)

RECURSIVE BinAlive(_, _, _, _)
\* One binning loop of RebuildBroadphase over items[i..].
BinAlive(items, i, cols, rows) ==
    IF i > Len(items) THEN <<>>
    ELSE LET c == PosToCell(items[i].x, items[i].y)
             idx == CellIndex(cols, rows, c[1], c[2])
             rest == BinAlive(items, i + 1, cols, rows)
         IN IF items[i].alive /\ idx >= 0
            THEN <<[cell |-> idx, idx |-> i]>> \o rest
            ELSE rest

\* The entries of one bucket, in push order.
Bucket(grid, cell) ==
    LET RECURSIVE Pick(_)
        Pick(k) == IF k > Len(grid) THEN <<>>
                   ELSE IF grid[k].cell = cell THEN <<grid[k].idx>> \o Pick(k + 1)
                   ELSE Pick(k + 1)
    IN Pick(1)

\* The offsets of the 3x3 neighbourhood in loop order: dy outer, dx inner.
NearOffsets == << <<-1, -1>>, <<0, -1>>, <<1, -1>>,
                  <<-1, 0>>,  <<0, 0>>,  <<1, 0>>,
                  <<-1, 1>>,  <<0, 1>>,  <<1, 1>> >>

CollectNearCells(cols, rows, cx, cy) ==
    LET RECURSIVE Go(_)
        Go(k) == IF k > Len(NearOffsets) THEN <<>>
                 ELSE LET idx == CellIndex(cols, rows, cx + NearOffsets[k][1],
                                           cy + NearOffsets[k][2])
                      IN IF idx >= 0 THEN <<idx>> \o Go(k + 1) ELSE Go(k + 1)
    IN Go(1)

\* The indices a walk over the buckets of `cells` meets, in order.
RECURSIVE WalkBuckets(_, _)
WalkBuckets(grid, cells) ==
    IF cells = <<>> THEN <<>>
    ELSE Bucket(grid, Head(cells)) \o WalkBuckets(grid, Tail(cells))

\* -------------------------------------------------------- arena mechanics
\* Variant: a negative remainder is left as it is.
WrapFineNoAdd(x, extent) ==
    LET m == CMod(x, extent)
    IN IF m >= extent THEN 0 ELSE m

\* Variant: the sum is not tested against the extent.
WrapFineNoClamp(x, extent) ==
    LET m == CMod(x, extent)
    IN IF m < 0 THEN FloatRound(m + extent) ELSE m

\* One coordinate of WrapPosition, in steps of 1/Fine: std::fmod is exact,
\* the sum is rounded to a float.
WrapFine(x, extent) ==
    LET m == CMod(x, extent)
        p == IF m < 0 THEN FloatRound(m + extent) ELSE m
    IN IF p >= extent THEN 0 ELSE p

WrapPositionFine(x, y) ==
    <<WrapFine(x, ASTROBOTS_W * Fine), WrapFine(y, ASTROBOTS_H * Fine)>>

\* One coordinate of WrapPosition, in whole units.
WrapCoord(x, extent) == WrapFine(x * Fine, extent * Fine) \div Fine

WrapPosition(x, y) == <<WrapCoord(x, ASTROBOTS_W), WrapCoord(y, ASTROBOTS_H)>>

SpawnParticleBurst(w, count) == [w EXCEPT !.particles = @ + count]

\* The segments KillShip spawns: SHIP_DEBRIS_COUNT_PER_EDGE on each of the
\* three edges, lifetime SHIP_DEBRIS_LIFETIME + lifeJitter, at least 20.
DebrisSegments(jitter) ==
    [k \in 1..(3 * SHIP_DEBRIS_COUNT_PER_EDGE) |->
        [lifetime |-> Max2(20, SHIP_DEBRIS_LIFETIME + jitter[k]), alive |-> TRUE]]

\* Variant: KillShip without its test of alive.
KillShipAgain(w, i, kind, jitter) ==
    LET w1 == [w EXCEPT !.ships[i].alive = FALSE,
                        !.log = Append(@, LogLine(kind, i, 0))]
        w2 == SpawnParticleBurst(SpawnParticleBurst(w1, 150), 80)
    IN [w2 EXCEPT !.shipDebris = @ \o DebrisSegments(jitter)]

\* Variant: KillShip leaves the ship as it is.
KillShipNever(w, i, kind, jitter) == w

KillShip(w, i, kind, jitter) ==
    IF ~w.ships[i].alive THEN w
    ELSE LET w1 == [w EXCEPT !.ships[i].alive = FALSE,
                             !.log = Append(@, LogLine(kind, i, 0))]
             w2 == SpawnParticleBurst(SpawnParticleBurst(w1, 150), 80)
         IN [w2 EXCEPT !.shipDebris = @ \o DebrisSegments(jitter)]

\* Variant: the children keep the size and the hit points of their parent.
FragmentsUnshrunk(a, parent, count, size, hp, hasPush, pushAngle, rnd) ==
    [k \in 1..count |->
        [x |-> a.x, y |-> a.y, vx |-> a.vx, vy |-> a.vy,
         size |-> a.size, hp |-> a.hp, alive |-> TRUE, parent |-> parent]]

\* What a read through the reference `a` gives once push_back has moved the
\* vector: the asteroid's values if the old storage is still intact,
\* anything otherwise.
Dangling == [x |-> -1, y |-> -1, vx |-> 0, vy |-> 0]

\* The children of asteroid a: count of them, of the given size and hit points.
\* With a push the i-th (from 0) leaves at pushAngle + (i - count/2) * 0.8 rad
\* with speed + 1.5; without, at a random angle.  The first child is built
\* before any push_back, the others after.
Fragments(a, parent, count, size, hp, hasPush, pushAngle, rnd) ==
    [k \in 1..count |->
        LET angle == IF hasPush THEN pushAngle + ((k - 1) - (count \div 2)) * 46
                     ELSE rnd.angle + (k - 1) * 120
            speed2 == IF hasPush THEN 2 * rnd.speed + 3 ELSE 2 * rnd.speed
            from == IF k > 1 /\ ~rnd.intact THEN Dangling ELSE a
        IN [x |-> from.x, y |-> from.y,
            vx |-> from.vx + TruncDiv(Cos(angle) * speed2, 2),
            vy |-> from.vy + TruncDiv(Sin(angle) * speed2, 2),
            size |-> size, hp |-> hp, alive |-> TRUE, parent |-> parent]]

\* The ship a broken small asteroid grants its fuel to: the loop of
\* BreakAsteroid over the ships from index i on (0: none).
RECURSIVE PickupShip(_, _, _)
PickupShip(shs, a, i) ==
    IF i > Len(shs) THEN 0
    ELSE IF shs[i].alive
            /\ Distance2(shs[i].x, shs[i].y, a.x, a.y) < PickupRadius * PickupRadius
         THEN i
         ELSE PickupShip(shs, a, i + 1)

BreakAsteroid(w, asteroidIdx, pushFromX, pushFromY, rnd) ==
    IF asteroidIdx < 1 \/ asteroidIdx > Len(w.asteroids) THEN w
    ELSE IF ~w.asteroids[asteroidIdx].alive THEN w
    ELSE LET a == w.asteroids[asteroidIdx]
             w1 == [w EXCEPT !.asteroids[asteroidIdx].alive = FALSE]
             hasPush == pushFromX >= 0 /\ pushFromY >= 0
             pushAngle == AngleTo(pushFromX, pushFromY, a.x, a.y)
         IN IF a.size > MEDIUM_ASTEROID_SIZE
            THEN [w1 EXCEPT !.asteroids = @ \o
                     Fragments(a, asteroidIdx, rnd.count, MEDIUM_ASTEROID_SIZE,
                               MEDIUM_ASTEROID_HP, hasPush, pushAngle, rnd)]
            ELSE IF a.size > SMALL_ASTEROID_SIZE
            THEN [w1 EXCEPT !.asteroids = @ \o
                     Fragments(a, asteroidIdx, rnd.count, SMALL_ASTEROID_SIZE,
                               SMALL_ASTEROID_HP, hasPush, pushAngle, rnd)]
            ELSE LET s == PickupShip(w1.ships, a, 1)
                 IN IF s = 0 THEN w1
                    ELSE [w1 EXCEPT
                            !.ships[s].fuel = Min2(@ + FUEL_PICKUP_AMOUNT, ASTRO_START_FUEL),
                            !.log = Append(@, LogLine("collects fuel", s, 0))]

\* ------------------------------------------------- narrow-phase outcomes
\* A shape is <<"ship", i>> or <<"ast", j>>.  The tests below bound what the
\* library can report for shapes at given positions; within the bound the
\* result is an input.
NoHit == -1

\* The nine wrap translations (BuildWrapTransforms; the ox, oy loops).
WrapOffsets == {<<ox * ASTROBOTS_W, oy * ASTROBOTS_H>> : ox \in {-1, 0, 1}, oy \in {-1, 0, 1}}

\* The reach of a shape from its position, in half units: the capsule's half
\* length plus radius; the largest vertex radius GenerateShape draws (1.3 r).
ShipReach2 == ShipHalfLen2 + ShipRadius2

AsteroidReach2(a) == (13 * a.size + 9) \div 10

\* c2CapsuletoPoly under some translation can report an overlap only within
\* the two reaches, and must when the asteroid's centre is inside the capsule.
MayOverlap(s, a) ==
    \E o \in WrapOffsets :
        4 * Distance2(s.x, s.y, a.x + o[1], a.y + o[2])
            <= (ShipReach2 + AsteroidReach2(a)) * (ShipReach2 + AsteroidReach2(a))

MustOverlap(s, a) ==
    \E o \in WrapOffsets :
        4 * Distance2(s.x, s.y, a.x + o[1], a.y + o[2]) <= ShipRadius2 * ShipRadius2

\* A ray from (x, y) along `angle` can meet a shape of the given reach at
\* (ex, ey) only within PHASER_RANGE, and only if the shape is close by or
\* lies in the direction of the ray.
RayMayHit(x, y, angle, ex, ey, reach2) ==
    \E o \in WrapOffsets :
        LET d2 == Distance2(x, y, ex + o[1], ey + o[2])
        IN /\ 4 * d2 <= (2 * PHASER_RANGE + reach2) * (2 * PHASER_RANGE + reach2)
           /\ \/ 4 * d2 <= 9 * reach2 * reach2
              \/ Abs(AngleDifference(angle % 360, AngleTo(x, y, ex + o[1], ey + o[2]) % 360)) <= 45

\* How far v lies outside the interval between a and b.
Outside(v, a, b) == Max2(0, Max2(Min2(a, b) - v, v - Max2(a, b)))

\* The torpedo's circle swept from its previous to its current position can
\* touch a shape only if the shape reaches into the box around the sweep.
SweepMayTouch(t, ex, ey, reach2) ==
    \E o \in WrapOffsets :
        /\ 2 * Outside(ex + o[1], t.prevX, t.x) <= reach2 + TorpedoRadius2
        /\ 2 * Outside(ey + o[2], t.prevY, t.y) <= reach2 + TorpedoRadius2

\* ------------------------------------------------------------ turn order
\* advanceTurn: state reset, the ships' programs, physics, the two collision
\* passes.
NextPhase(p) ==
    CASE p = "start" -> "ops"
      [] p = "ops" -> "collisions"
      [] p = "collisions" -> "torpedoes"
      [] p = "torpedoes" -> "end"
      [] p = "end" -> "start"

\* What an operation without an argument records (a set, as the collision
\* pass records the set of pairs it resolved).
NoArg == {}

Op(name, self, arg) == [op |-> name, self |-> self, arg |-> arg]

\* ------------------------------------------------------------------ Init
NewShip(x, y, angle) ==
    [x |-> x, y |-> y, vx |-> 0, vy |-> 0, angle |-> angle, targetAngle |-> angle,
     hp |-> ASTRO_START_HP, fuel |-> ASTRO_START_FUEL, alive |-> TRUE,
     scan_dist |-> 0, scan_angle |-> 0, scan_hit |-> FALSE,
     phaser_cooldown |-> 0, photon_cooldown |-> 0, signal |-> -1,
     \* not in the code: the turn of the ship's last Scan that found something
     scanned |-> 0]

NewAsteroid(x, y, vx, vy, size, hp) ==
    [x |-> x, y |-> y, vx |-> vx, vy |-> vy, size |-> size, hp |-> hp,
     alive |-> TRUE, parent |-> 0]

\* A match under way.  Ship 1 has little fuel left; ship 2, facing it, is down
\* to its last hit point and fired a torpedo 55 turns ago; a small asteroid
\* drifts between them, within the pickup radius of both and nearer to ship 2.
\* Ship 3, out of fuel, fired its phaser 28 turns ago and sits at the left
\* edge on a large asteroid that straddles the right edge; a medium asteroid
\* lies further along its line of fire.
NoProbe == [stage |-> "none"]

\* The ships and the asteroids of a match under way.
InitShips ==
    << [NewShip(1000, 1000, 0) EXCEPT !.fuel = 30, !.hp = 1],
       [NewShip(1060, 1000, 180) EXCEPT !.hp = 1,
                                        !.photon_cooldown = PHOTON_COOLDOWN - 55],
       [NewShip(3, 1000, 180) EXCEPT !.fuel = 0, !.hp = 2,
                                     !.phaser_cooldown = PHASER_COOLDOWN - 28] >>

InitAsteroids ==
    << NewAsteroid(1048, 1000, 0, 0, SMALL_ASTEROID_SIZE, SMALL_ASTEROID_HP),
       NewAsteroid(2044, 1000, 1, 0, LARGE_ASTEROID_SIZE, LARGE_ASTEROID_HP),
       NewAsteroid(1900, 1000, 0, 0, MEDIUM_ASTEROID_SIZE, MEDIUM_ASTEROID_HP) >>

\* The arena with these ships, at phase ph of turn tn, op having come last.
InitWorld(shs, asts, ph, tn, op, ops) ==
    /\ ships = shs
    /\ asteroids = asts
    /\ torpedoes = <<>>
    /\ phaserBeams = <<>>
    /\ particles = 0
    /\ shipDebris = <<>>
    /\ signals = <<>>
    /\ log = <<>>
    /\ gridCols = 0
    /\ gridRows = 0
    /\ gridAsteroids = <<>>
    /\ gridShips = <<>>
    /\ phase = ph
    /\ turn = tn
    /\ opsLeft = ops
    /\ lastOp = op
    /\ impacts = <<>>
    /\ gameOver = FALSE
    /\ gameWinner = -1

InitArena(shs, ph, tn, op) == InitWorld(shs, InitAsteroids, ph, tn, op, MaxOps)

\* Between two turns.
InitMatch == InitArena(InitShips, "start", 0, Op("setup", 0, NoArg))

\* --------------------------------------------------------------- StartTurn
\* Variant: cooldowns are left as they are.
StartTurnShipKeepsCooldowns(s) ==
    IF ~s.alive THEN s ELSE [s EXCEPT !.signal = -1, !.scan_hit = FALSE]

\* Variant: a scan that hit stays a hit in the next turn.
StartTurnShipKeepsHit(s) ==
    IF ~s.alive THEN s
    ELSE [s EXCEPT !.phaser_cooldown = IF @ > 0 THEN @ - 1 ELSE @,
                   !.photon_cooldown = IF @ > 0 THEN @ - 1 ELSE @,
                   !.signal = -1]

\* Variant: the scan result and the signal are left as they are.
StartTurnShipKeepsScan(s) ==
    IF ~s.alive THEN s
    ELSE [s EXCEPT !.phaser_cooldown = IF @ > 0 THEN @ - 1 ELSE @,
                   !.photon_cooldown = IF @ > 0 THEN @ - 1 ELSE @]

StartTurnShip(s) ==
    IF ~s.alive THEN s
    ELSE [s EXCEPT !.phaser_cooldown = IF @ > 0 THEN @ - 1 ELSE @,
                   !.photon_cooldown = IF @ > 0 THEN @ - 1 ELSE @,
                   !.signal = -1,
                   !.scan_hit = FALSE]

\* StartTurn, whatever the number of the turn.
StartTurnStep ==
    /\ phase = "start"
    /\ signals' = <<>>
    /\ ships' = [i \in ShipIds |-> StartTurnShip(ships[i])]
    /\ phase' = NextPhase(phase)
    /\ turn' = turn + 1
    /\ lastOp' = Op("StartTurn", 0, NoArg)
    /\ impacts' = <<>>
    /\ UNCHANGED <<asteroids, torpedoes, phaserBeams, particles, shipDebris, log,
                   gridCols, gridRows, gridAsteroids, gridShips, opsLeft,
                   gameOver, gameWinner, probe>>

StartTurn == turn < MaxTurns /\ StartTurnStep

\* ------------------------------------------------------ action primitives
\* What every primitive leaves alone, and how it is recorded; the caller says
\* what becomes of the program that issues it.
CanIssue == phase = "ops" /\ opsLeft > 0

Primitive(name, self, arg) ==
    /\ CanIssue
    /\ opsLeft' = opsLeft - 1
    /\ lastOp' = Op(name, self, arg)
    /\ impacts' = <<>>
    /\ UNCHANGED <<gridCols, gridRows, gridAsteroids, gridShips, phase, turn,
                   gameOver, gameWinner>>

\* The thrust along the heading in 1/ThrustDen velocity units for a power of
\* p tenths: full, a quarter with no fuel, in between with some.
MinEffDen == 4

ThrustDen == PowerDen * ThrustPowerDen * MinEffDen

EffectiveThrust(fuel, p) ==
    IF fuel >= p THEN MinEffDen * p
    ELSE IF fuel <= 0 THEN p
    ELSE p + (MinEffDen - 1) * fuel

FuelAfterThrust(fuel, p) ==
    IF fuel >= p THEN fuel - p
    ELSE IF fuel <= 0 THEN fuel
    ELSE 0

\* speed > MAX_VELOCITY: scale the velocity back to MAX_VELOCITY.
ClampSpeed(vx, vy) ==
    LET n == vx * vx + vy * vy
    IN IF n > MAX_VELOCITY * MAX_VELOCITY
       THEN <<TruncDiv(vx * MAX_VELOCITY, CeilSqrt(n)), TruncDiv(vy * MAX_VELOCITY, CeilSqrt(n))>>
       ELSE <<vx, vy>>

\* Variant: Thrust without the alive guard.
ThrustShipAnyway(s, p) ==
    LET eff == EffectiveThrust(s.fuel, p)
        v == ClampSpeed(s.vx + TruncDiv(Cos(s.angle) * eff, ThrustDen),
                        s.vy + TruncDiv(Sin(s.angle) * eff, ThrustDen))
    IN [s EXCEPT !.fuel = FuelAfterThrust(s.fuel, p), !.vx = v[1], !.vy = v[2]]

ThrustShip(s, p) ==
    IF ~s.alive THEN s
    ELSE LET eff == EffectiveThrust(s.fuel, p)
             v == ClampSpeed(s.vx + TruncDiv(Cos(s.angle) * eff, ThrustDen),
                             s.vy + TruncDiv(Sin(s.angle) * eff, ThrustDen))
         IN [s EXCEPT !.fuel = FuelAfterThrust(s.fuel, p), !.vx = v[1], !.vy = v[2]]

\* The thrust parameters a program issues (THRUST(-1), THRUST(0), THRUST(4)).
ThrustPowers == {-10, 0, 40}

Thrust(self, p) ==
    /\ Primitive("Thrust", self, p)
    /\ ships' = [ships EXCEPT ![self] = ThrustShip(ships[self], p)]
    /\ UNCHANGED <<asteroids, torpedoes, phaserBeams, particles, shipDebris, signals, log>>

TurnDegrees == {-90, 362}

TurnDeg(self, degrees) ==
    /\ Primitive("TurnDeg", self, degrees)
    /\ ships' = IF ~ships[self].alive THEN ships
                ELSE [ships EXCEPT ![self].targetAngle = NormalizeAngle(degrees)]
    /\ UNCHANGED <<asteroids, torpedoes, phaserBeams, particles, shipDebris, signals, log>>

SignalValues == {7}

Signal(self, value) ==
    /\ Primitive("Signal", self, value)
    /\ IF ~ships[self].alive
       THEN UNCHANGED <<ships, signals>>
       ELSE /\ ships' = [ships EXCEPT ![self].signal = value]
            /\ signals' = Append(signals, <<ships[self].x, ships[self].y>>)
    /\ UNCHANGED <<asteroids, torpedoes, phaserBeams, particles, shipDebris, log>>

TurnToScan(self) ==
    /\ Primitive("TurnToScan", self, NoArg)
    /\ ships' = IF ~ships[self].alive \/ ~ships[self].scan_hit THEN ships
                ELSE [ships EXCEPT ![self].targetAngle = ships[self].scan_angle]
    /\ UNCHANGED <<asteroids, torpedoes, phaserBeams, particles, shipDebris, signals, log>>

\* One loop of Scan over items[i..]: a strictly closer alive item (not the
\* scanning ship itself when skip = its index) replaces the best so far.
RECURSIVE ScanLoop(_, _, _, _, _)
ScanLoop(s, items, skip, i, best) ==
    IF i > Len(items) THEN best
    ELSE LET d2 == Distance2(s.x, s.y, items[i].x, items[i].y)
         IN IF i = skip \/ ~items[i].alive \/ ~(d2 < best.d2)
            THEN ScanLoop(s, items, skip, i + 1, best)
            ELSE ScanLoop(s, items, skip, i + 1,
                          [d2 |-> d2, found |-> TRUE,
                           angle |-> AngleTo(s.x, s.y, items[i].x, items[i].y)])

\* Variant: what lies exactly at the range of a scan is found too.
ScanShipAtRange(shs, asts, self) ==
    LET s == shs[self]
        start == [d2 |-> ASTRO_SCAN_RANGE * ASTRO_SCAN_RANGE + 1, found |-> FALSE, angle |-> 0]
        best == ScanLoop(s, asts, 0, 1, ScanLoop(s, shs, self, 1, start))
    IN [s EXCEPT !.scan_hit = best.found,
                 !.scan_dist = FloorSqrt(best.d2),
                 !.scan_angle = NormalizeAngle(best.angle)]

ScanShip(shs, asts, self) ==
    LET s == shs[self]
        start == [d2 |-> ASTRO_SCAN_RANGE * ASTRO_SCAN_RANGE, found |-> FALSE, angle |-> 0]
        best == ScanLoop(s, asts, 0, 1, ScanLoop(s, shs, self, 1, start))
    IN [s EXCEPT !.scan_hit = best.found,
                 !.scan_dist = FloorSqrt(best.d2),
                 !.scan_angle = NormalizeAngle(best.angle)]

\* The ship after its Scan in turn tn.
Scanned(shs, asts, self, tn) ==
    LET s == ScanShip(shs, asts, self)
    IN [s EXCEPT !.scanned = IF s.scan_hit THEN tn ELSE @]

Scan(self) ==
    /\ Primitive("Scan", self, NoArg)
    /\ ships' = IF ~ships[self].alive THEN ships
                ELSE [ships EXCEPT ![self] = Scanned(ships, asteroids, self, turn)]
    /\ UNCHANGED <<asteroids, torpedoes, phaserBeams, particles, shipDebris, signals, log>>

\* In the first turn, the program of ship 2 having run Scan.
InitScanned ==
    LET started == [i \in 1..Len(InitShips) |-> StartTurnShip(InitShips[i])]
    IN InitArena([started EXCEPT ![2] = Scanned(started, InitAsteroids, 2, 1)],
                 "ops", 1, Op("Scan", 2, NoArg))

Init == (InitMatch \/ InitScanned) /\ probe = NoProbe

\* What is not determined in one operation: the number of fragments of a
\* break (countDist), their speed (speedDist, whole units), the angle of a
\* break without push (angleDist), the lifetime jitter of debris
\* (lifeJitter), and whether the storage the asteroids left is still intact.
Rnd(count, speed, angle, jitter, intact) ==
    [count |-> count, speed |-> speed, angle |-> angle, jitter |-> jitter,
     intact |-> intact]

\* The draws an operation is tried with: every value of every one of them.
Rnds == { Rnd(2, 1, 0, <<0, 0, 0, 0, 0, 0>>, TRUE),
          Rnd(3, 2, 180, <<-10, 10, -3, 0, 10, -10>>, TRUE),
          Rnd(3, 1, 0, <<0, 0, 0, 0, 0, 0>>, FALSE) }

\* The shapes a phaser ray of ship `self` may meet.
RayCandidates(self) ==
    LET s == ships[self]
    IN {<<"ship", i>> : i \in {j \in ShipIds : j # self /\ ships[j].alive
                                  /\ RayMayHit(s.x, s.y, s.angle, ships[j].x, ships[j].y, ShipReach2)}}
       \cup
       {<<"ast", i>> : i \in {j \in 1..Len(asteroids) : asteroids[j].alive
                                 /\ RayMayHit(s.x, s.y, s.angle, asteroids[j].x, asteroids[j].y,
                                              AsteroidReach2(asteroids[j]))}}

RayResult(ray, shape) == IF shape \in DOMAIN ray THEN ray[shape] ELSE NoHit

\* Variant: every ray cast result replaces the one before.
RayLatest(t, closestDist) == TRUE

\* A ray cast result replaces the closest so far.
RayCloser(t, closestDist) == t < closestDist

\* One loop of FirePhaser over the alive items from i on (kind "ship" skips
\* the firing ship): the closest hit so far, as [t, kind, index].
RECURSIVE PhaserLoop(_, _, _, _, _, _)
PhaserLoop(items, kind, skip, ray, i, best) ==
    IF i > Len(items) THEN best
    ELSE LET t == RayResult(ray, <<kind, i>>)
         IN IF i = skip \/ ~items[i].alive \/ t = NoHit \/ ~RayCloser(t, best.t)
            THEN PhaserLoop(items, kind, skip, ray, i + 1, best)
            ELSE PhaserLoop(items, kind, skip, ray, i + 1, [t |-> t, kind |-> kind, index |-> i])

PhaserHit(self, ray) ==
    PhaserLoop(asteroids, "ast", 0, ray, 1,
               PhaserLoop(ships, "ship", self, ray, 1,
                          [t |-> RaySteps, kind |-> "none", index |-> 0]))

FirePhaserRejected(self) == ~ships[self].alive \/ ships[self].phaser_cooldown > 0

\* FirePhaser past its guard, on the world w.
FirePhaserWorld(w, self, hit, rnd) ==
    IF hit.kind = "ship"
    THEN LET w1 == [w EXCEPT !.ships[hit.index].hp = @ - PHASER_DAMAGE]
             w2 == SpawnParticleBurst(w1, 28)
             w3 == [w2 EXCEPT !.log = Append(@, LogLine("phaser hit", self, hit.index))]
         IN IF w3.ships[hit.index].hp <= 0
            THEN KillShip(w3, hit.index, "destroyed", rnd.jitter)
            ELSE w3
    ELSE IF hit.kind = "ast"
    THEN LET w1 == SpawnParticleBurst(w, 36)
             w2 == BreakAsteroid(w1, hit.index, w.ships[self].x, w.ships[self].y, rnd)
         IN [w2 EXCEPT !.ships[self].fuel = Min2(@ + FUEL_HIT_REWARD, ASTRO_START_FUEL)]
    ELSE [w EXCEPT !.log = Append(@, LogLine("phaser miss", self, 0))]

\* The results a ray cast can give.
RayTimes == {NoHit} \cup (0..(RaySteps - 1))

FirePhaser(self) ==
    /\ CanIssue
    /\ IF FirePhaserRejected(self)
       THEN /\ Primitive("FirePhaser", self, <<>>)
            /\ UNCHANGED <<ships, asteroids, phaserBeams, particles, shipDebris, log>>
       ELSE \E ray \in [RayCandidates(self) -> RayTimes], rnd \in Rnds :
            LET w0 == [World EXCEPT !.ships[self].phaser_cooldown = PHASER_COOLDOWN]
                w == FirePhaserWorld(w0, self, PhaserHit(self, ray), rnd)
            IN /\ Primitive("FirePhaser", self, ray)
               /\ ships' = w.ships
               /\ asteroids' = w.asteroids
               /\ particles' = w.particles
               /\ shipDebris' = w.shipDebris
               /\ log' = w.log
               /\ phaserBeams' = Append(phaserBeams,
                      [x1 |-> ships[self].x, y1 |-> ships[self].y,
                       lifetime |-> BeamLifetime, alive |-> TRUE, born |-> turn])
    /\ UNCHANGED <<torpedoes, signals>>

\* Variant: the guard without the cooldown test.
FirePhotonRejectedWhenDead(self) == ~ships[self].alive

FirePhotonRejected(self) == ~ships[self].alive \/ ships[self].photon_cooldown > 0

NewTorpedo(s, self) ==
    [x |-> s.x, y |-> s.y, prevX |-> s.x, prevY |-> s.y,
     vx |-> s.vx + Cos(s.angle) * PHOTON_SPEED,
     vy |-> s.vy + Sin(s.angle) * PHOTON_SPEED,
     lifetime |-> PHOTON_LIFETIME, damage |-> PHOTON_DAMAGE,
     owner |-> self, alive |-> TRUE, born |-> 0]

FirePhoton(self) ==
    /\ Primitive("FirePhoton", self, NoArg)
    /\ IF FirePhotonRejected(self)
       THEN UNCHANGED <<ships, torpedoes, log>>
       ELSE /\ ships' = [ships EXCEPT ![self].photon_cooldown = PHOTON_COOLDOWN]
            /\ torpedoes' = Append(torpedoes,
                                   [NewTorpedo(ships[self], self) EXCEPT !.born = turn])
            /\ log' = Append(log, LogLine("fires torpedo", self, 0))
    /\ UNCHANGED <<asteroids, phaserBeams, particles, shipDebris, signals>>

\* ------------------------------------------------------------ UpdatePhysics
EaseAngle(angle, targetAngle) ==
    LET angleDiff == AngleDifference(angle, targetAngle)
    IN NormalizeAngle(IF Abs(angleDiff) > ROTATION_SPEED
                      THEN angle + (IF angleDiff > 0 THEN ROTATION_SPEED ELSE -ROTATION_SPEED)
                      ELSE targetAngle)

\* v *= DRAG, to whole units.
Damp(v) == TruncDiv(v * DRAG, 100)

PhysicsShip(s) ==
    IF ~s.alive THEN s
    ELSE LET pos == WrapPosition(s.x + s.vx, s.y + s.vy)
         IN [s EXCEPT !.angle = EaseAngle(s.angle, s.targetAngle),
                      !.x = pos[1], !.y = pos[2],
                      !.vx = Damp(s.vx), !.vy = Damp(s.vy)]

\* Variant: an asteroid drifts on past the edge of the arena.
PhysicsAsteroidUnwrapped(a) ==
    IF ~a.alive THEN a
    ELSE [a EXCEPT !.x = a.x + a.vx, !.y = a.y + a.vy]

PhysicsAsteroid(a) ==
    IF ~a.alive THEN a
    ELSE LET pos == WrapPosition(a.x + a.vx, a.y + a.vy)
         IN [a EXCEPT !.x = pos[1], !.y = pos[2]]

\* Variant: the lifetime of a torpedo is left as it is.
PhysicsTorpedoTimeless(t) ==
    IF ~t.alive THEN t
    ELSE [t EXCEPT !.prevX = t.x, !.prevY = t.y,
                   !.x = t.x + t.vx, !.y = t.y + t.vy]

PhysicsTorpedo(t) ==
    IF ~t.alive THEN t
    ELSE [t EXCEPT !.prevX = t.x, !.prevY = t.y,
                   !.x = t.x + t.vx, !.y = t.y + t.vy,
                   !.lifetime = t.lifetime - 1,
                   !.alive = ~(t.lifetime - 1 <= 0)]

\* Variant: a lifetime expires one step early.
PhysicsDecayEarly(e) ==
    IF ~e.alive THEN e
    ELSE [e EXCEPT !.lifetime = e.lifetime - 1, !.alive = ~(e.lifetime - 1 <= 1)]

\* Beams and debris segments: count the lifetime down, expire at zero.
PhysicsDecay(e) ==
    IF ~e.alive THEN e
    ELSE [e EXCEPT !.lifetime = e.lifetime - 1, !.alive = ~(e.lifetime - 1 <= 0)]

\* Variant: the cleanup fills the place of a dead element with the last one.
RECURSIVE RemoveDeadUnordered(_)
RemoveDeadUnordered(seq) ==
    IF seq = <<>> THEN <<>>
    ELSE IF Head(seq).alive THEN <<Head(seq)>> \o RemoveDeadUnordered(Tail(seq))
    ELSE IF Len(seq) = 1 THEN <<>>
    ELSE RemoveDeadUnordered(<<seq[Len(seq)]>> \o SubSeq(seq, 2, Len(seq) - 1))

\* std::remove_if on the dead, the order of the others kept.
RECURSIVE RemoveDead(_)
RemoveDead(seq) ==
    IF seq = <<>> THEN <<>>
    ELSE IF Head(seq).alive THEN <<Head(seq)>> \o RemoveDead(Tail(seq))
    ELSE RemoveDead(Tail(seq))

UpdatePhysics ==
    /\ phase = "ops"
    /\ ships' = [i \in ShipIds |-> PhysicsShip(ships[i])]
    /\ asteroids' = [i \in 1..Len(asteroids) |-> PhysicsAsteroid(asteroids[i])]
    /\ torpedoes' = [i \in 1..Len(torpedoes) |-> PhysicsTorpedo(torpedoes[i])]
    /\ phaserBeams' = [i \in 1..Len(phaserBeams) |-> PhysicsDecay(phaserBeams[i])]
    /\ shipDebris' = RemoveDead([i \in 1..Len(shipDebris) |-> PhysicsDecay(shipDebris[i])])
    /\ phase' = NextPhase(phase)
    /\ lastOp' = Op("UpdatePhysics", 0, NoArg)
    /\ impacts' = <<>>
    /\ UNCHANGED <<particles, signals, log, gridCols, gridRows, gridAsteroids,
                   gridShips, turn, opsLeft, gameOver, gameWinner, probe>>

\* --------------------------------------------------------- HandleCollisions
\* The <<ship, asteroid>> tests of the pass in loop order: for each alive
\* ship, the buckets of the cells around it.
RECURSIVE CollisionTests(_, _, _, _, _)
CollisionTests(shs, grid, cols, rows, si) ==
    IF si > Len(shs) THEN <<>>
    ELSE LET c == PosToCell(shs[si].x, shs[si].y)
             walk == WalkBuckets(grid, CollectNearCells(cols, rows, c[1], c[2]))
             rest == CollisionTests(shs, grid, cols, rows, si + 1)
         IN IF ~shs[si].alive THEN rest
            ELSE [k \in 1..Len(walk) |-> <<si, walk[k]>>] \o rest

\* Variant: a collision adds a hit point to the ship.
CollidePairMending(w, si, ai, hit, rnd) ==
    IF ~w.asteroids[ai].alive \/ ~hit THEN w
    ELSE [w EXCEPT !.ships[si].hp = @ + 1]

\* Variant: a collision breaks the asteroid at once, as a weapon hit does.
CollidePairBreaking(w, si, ai, hit, rnd) ==
    IF ~w.asteroids[ai].alive \/ ~hit THEN w
    ELSE BreakAsteroid([w EXCEPT !.ships[si].hp = @ - 1, !.asteroids[ai].hp = @ - 1],
                       ai, w.ships[si].x, w.ships[si].y, rnd)

\* Variant: the asteroid is not tested for being alive.
CollidePairDeadToo(w, si, ai, hit, rnd) ==
    IF ~hit THEN w
    ELSE LET w1 == [w EXCEPT !.ships[si].hp = @ - 1, !.asteroids[ai].hp = @ - 1]
             w2 == SpawnParticleBurst(w1, 24)
             w3 == IF w2.ships[si].hp <= 0
                   THEN KillShip(w2, si, "destroyed by asteroid", rnd.jitter)
                   ELSE w2
         IN IF w3.asteroids[ai].hp <= 0
            THEN BreakAsteroid(w3, ai, w3.ships[si].x, w3.ships[si].y, rnd)
            ELSE w3

\* The body of the loops for one ship and one asteroid of its neighbourhood.
CollidePair(w, si, ai, hit, rnd) ==
    IF ~w.asteroids[ai].alive \/ ~hit THEN w
    ELSE LET w1 == [w EXCEPT !.ships[si].hp = @ - 1, !.asteroids[ai].hp = @ - 1]
             w2 == SpawnParticleBurst(w1, 24)
             w3 == IF w2.ships[si].hp <= 0
                   THEN KillShip(w2, si, "destroyed by asteroid", rnd.jitter)
                   ELSE w2
         IN IF w3.asteroids[ai].hp <= 0
            THEN BreakAsteroid(w3, ai, w3.ships[si].x, w3.ships[si].y, rnd)
            ELSE w3

RECURSIVE CollideLoop(_, _, _, _, _)
CollideLoop(w, tests, k, overlaps, rnd) ==
    IF k > Len(tests) THEN w
    ELSE CollideLoop(CollidePair(w, tests[k][1], tests[k][2], tests[k] \in overlaps, rnd),
                     tests, k + 1, overlaps, rnd)

Range(seq) == {seq[k] : k \in 1..Len(seq)}

HandleCollisions ==
    /\ phase = "collisions"
    /\ LET cols == GridDim(ASTROBOTS_W)
           rows == GridDim(ASTROBOTS_H)
           ga == BinAlive(asteroids, 1, cols, rows)
           gs == BinAlive(ships, 1, cols, rows)
           tests == CollisionTests(ships, ga, cols, rows, 1)
           must == {p \in Range(tests) : MustOverlap(ships[p[1]], asteroids[p[2]])}
           unsure == {p \in Range(tests) : MayOverlap(ships[p[1]], asteroids[p[2]])} \ must
       IN \E may \in SUBSET unsure, rnd \in Rnds :
          LET w == CollideLoop(World, tests, 1, must \cup may, rnd)
          IN /\ gridCols' = cols
             /\ gridRows' = rows
             /\ gridAsteroids' = ga
             /\ gridShips' = gs
             /\ ships' = w.ships
             /\ asteroids' = w.asteroids
             /\ particles' = w.particles
             /\ shipDebris' = w.shipDebris
             /\ log' = w.log
             /\ phase' = NextPhase(phase)
             /\ lastOp' = Op("HandleCollisions", 0, must \cup may)
             /\ impacts' = <<>>
             /\ UNCHANGED <<torpedoes, phaserBeams, signals, turn, opsLeft,
                            gameOver, gameWinner, probe>>

\* ---------------------------------------------------------- HandleTorpedoes
\* The sweeps of the pass and the shapes each may touch: <<torpedo, kind, index>>.
SweepPairs ==
    {<<ti, "ship", i>> : <<ti, i>> \in
        {q \in (1..Len(torpedoes)) \X ShipIds :
            /\ torpedoes[q[1]].alive /\ ships[q[2]].alive
            /\ SweepMayTouch(torpedoes[q[1]], ships[q[2]].x, ships[q[2]].y, ShipReach2)}}
    \cup
    {<<ti, "ast", i>> : <<ti, i>> \in
        {q \in (1..Len(torpedoes)) \X (1..Len(asteroids)) :
            /\ torpedoes[q[1]].alive /\ asteroids[q[2]].alive
            /\ SweepMayTouch(torpedoes[q[1]], asteroids[q[2]].x, asteroids[q[2]].y,
                             AsteroidReach2(asteroids[q[2]]))}}

ToiResult(toi, ti, kind, i) == IF <<ti, kind, i>> \in DOMAIN toi THEN toi[<<ti, kind, i>>] ELSE NoHit

\* Variant: the ship loop passes over the dead only.
SkipsShipWhenDead(t, si, shs) == ~shs[si].alive

\* The ship loop passes over the torpedo's owner and the dead.
SkipsShip(t, si, shs) == si = t.owner \/ ~shs[si].alive

\* Variant: the torpedo flies on after its impact.
DeactivateNever(torps, ti) == torps

\* Variant: every impact of the sweep replaces the best so far.
ToiAny(toi, bestToi) == toi >= 0

\* t.alive = false of "Resolve earliest impact".
Deactivate(torps, ti) == [torps EXCEPT ![ti].alive = FALSE]

\* Variant: an impact replaces the best so far only if it comes before it.
ToiStrictlyEarlier(toi, bestToi) == toi >= 0 /\ toi < bestToi

\* An impact replaces the best so far.
ToiEarlier(toi, bestToi) == toi >= 0 /\ toi <= bestToi

\* One candidate loop of a torpedo over the walk of the buckets: the earliest
\* impact so far, and every impact the loop met (seen).
RECURSIVE ToiLoop(_, _, _, _, _, _, _, _)
ToiLoop(t, ti, kind, items, walk, toi, k, best) ==
    IF k > Len(walk) THEN best
    ELSE LET i == walk[k]
             res == ToiResult(toi, ti, kind, i)
             skip == IF kind = "ship" THEN SkipsShip(t, i, items) ELSE ~items[i].alive
             met == [best EXCEPT !.seen = Append(@, [kind |-> kind, index |-> i, toi |-> res])]
         IN IF skip \/ res = NoHit
            THEN ToiLoop(t, ti, kind, items, walk, toi, k + 1, best)
            ELSE IF ToiEarlier(res, best.toi)
            THEN ToiLoop(t, ti, kind, items, walk, toi, k + 1,
                         [met EXCEPT !.toi = res, !.hitType = kind, !.hitIndex = i,
                                     !.anyHit = TRUE])
            ELSE ToiLoop(t, ti, kind, items, walk, toi, k + 1, met)

\* "Resolve earliest impact" for torpedo ti on the world w.
ResolveImpact(w, t, best, rnd) ==
    IF best.hitType = "ship"
    THEN LET w1 == [w EXCEPT !.ships[best.hitIndex].hp = @ - t.damage]
             w2 == SpawnParticleBurst(SpawnParticleBurst(w1, 42), 20)
             w3 == [w2 EXCEPT !.log = Append(@, LogLine("torpedo hit", t.owner, best.hitIndex))]
         IN IF w3.ships[best.hitIndex].hp <= 0
            THEN KillShip(w3, best.hitIndex, "destroyed", rnd.jitter)
            ELSE w3
    ELSE IF best.hitType = "ast"
    THEN LET w1 == SpawnParticleBurst(SpawnParticleBurst(w, 48), 25)
             w2 == BreakAsteroid(w1, best.hitIndex, t.x, t.y, rnd)
         IN IF t.owner >= 1 /\ t.owner <= Len(w2.ships)
            THEN [w2 EXCEPT !.ships[t.owner].fuel = Min2(@ + FUEL_HIT_REWARD, ASTRO_START_FUEL)]
            ELSE w2
    ELSE w

\* The loop over the torpedoes from ti on; st is the world, the torpedoes and
\* the impacts resolved so far.
RECURSIVE TorpedoLoop(_, _, _, _, _, _, _, _)
TorpedoLoop(st, ti, gs, ga, cols, rows, toi, rnd) ==
    IF ti > Len(st.torpedoes) THEN st
    ELSE LET t == st.torpedoes[ti]
             c0 == PosToCell(t.prevX, t.prevY)
             c1 == PosToCell(t.x, t.y)
             cells == CollectNearCells(cols, rows, c0[1], c0[2])
                      \o CollectNearCells(cols, rows, c1[1], c1[2])
             none == [toi |-> ToiSteps, hitType |-> "none", hitIndex |-> 0,
                      anyHit |-> FALSE, seen |-> <<>>]
             best == ToiLoop(t, ti, "ast", st.w.asteroids, WalkBuckets(ga, cells), toi, 1,
                             ToiLoop(t, ti, "ship", st.w.ships, WalkBuckets(gs, cells), toi, 1, none))
         IN IF ~t.alive \/ ~best.anyHit
            THEN TorpedoLoop(st, ti + 1, gs, ga, cols, rows, toi, rnd)
            ELSE TorpedoLoop(
                    [w |-> ResolveImpact(st.w, t, best, rnd),
                     torpedoes |-> Deactivate(st.torpedoes, ti),
                     impacts |-> Append(st.impacts,
                         [torp |-> ti, owner |-> t.owner, hitType |-> best.hitType,
                          hitIndex |-> best.hitIndex, toi |-> best.toi, seen |-> best.seen,
                          ownerToi |-> ToiResult(toi, ti, "ship", t.owner)])],
                    ti + 1, gs, ga, cols, rows, toi, rnd)

\* The results a sweep test can give.
ToiTimes == {NoHit} \cup (0..ToiSteps)

HandleTorpedoes ==
    /\ phase = "torpedoes"
    /\ LET cols == GridDim(ASTROBOTS_W)
           rows == GridDim(ASTROBOTS_H)
           ga == BinAlive(asteroids, 1, cols, rows)
           gs == BinAlive(ships, 1, cols, rows)
       IN \E toi \in [SweepPairs -> ToiTimes], rnd \in Rnds :
          LET st == TorpedoLoop([w |-> World, torpedoes |-> torpedoes, impacts |-> <<>>],
                                1, gs, ga, cols, rows, toi, rnd)
          IN /\ gridCols' = cols
             /\ gridRows' = rows
             /\ gridAsteroids' = ga
             /\ gridShips' = gs
             /\ ships' = st.w.ships
             /\ asteroids' = st.w.asteroids
             /\ particles' = st.w.particles
             /\ shipDebris' = st.w.shipDebris
             /\ log' = st.w.log
             /\ torpedoes' = st.torpedoes
             /\ impacts' = st.impacts
             /\ phase' = NextPhase(phase)
             /\ lastOp' = Op("HandleTorpedoes", 0, NoArg)
             /\ UNCHANGED <<phaserBeams, signals, turn, opsLeft,
                            gameOver, gameWinner, probe>>

\* ---------------------------------------------------------------- EndOfTurn
AliveShips == {i \in ShipIds : ships[i].alive}

\* Game::checkForWinner: the last ship alive, 0 for no winner.
checkForWinner ==
    IF Cardinality(AliveShips) = 1 THEN CHOOSE i \in AliveShips : TRUE ELSE 0

\* Game::checkForDraw: nobody is left, or the turn limit has come with
\* several ships alive.
checkForDraw ==
    \/ AliveShips = {}
    \/ turn >= ASTRO_MAX_TURNS /\ Cardinality(AliveShips) >= 2

\* Variant: the draw test is left out.
EndOfTurnResultWinnerOnly(over, number, winner, draw) ==
    IF winner # 0 THEN [gameOver |-> TRUE, gameWinner |-> winner]
    ELSE [gameOver |-> over, gameWinner |-> number]

\* The two globals after EndOfTurn, from their values before and the two
\* answers of the game.
EndOfTurnResult(over, number, winner, draw) ==
    LET g1 == IF winner # 0 THEN [gameOver |-> TRUE, gameWinner |-> winner]
              ELSE [gameOver |-> over, gameWinner |-> number]
    IN IF draw THEN [gameOver |-> TRUE, gameWinner |-> -1] ELSE g1

EndOfTurn ==
    /\ phase = "end"
    /\ LET g == EndOfTurnResult(gameOver, gameWinner, checkForWinner, checkForDraw)
       IN /\ gameOver' = g.gameOver
          /\ gameWinner' = g.gameWinner
    /\ phase' = NextPhase(phase)
    /\ lastOp' = Op("EndOfTurn", 0, NoArg)
    /\ UNCHANGED <<WorldState, gridCols, gridRows, gridAsteroids, gridShips,
                   turn, opsLeft, impacts, probe>>

\* ------------------------------------------------------------------- Next
Next ==
    \/ StartTurn
    \/ \E self \in ShipIds, p \in ThrustPowers : Thrust(self, p) /\ UNCHANGED probe
    \/ \E self \in ShipIds, d \in TurnDegrees : TurnDeg(self, d) /\ UNCHANGED probe
    \/ \E self \in ShipIds : FirePhaser(self) /\ UNCHANGED probe
    \/ \E self \in ShipIds : FirePhoton(self) /\ UNCHANGED probe
    \/ \E self \in ShipIds : Scan(self) /\ UNCHANGED probe
    \/ \E self \in ShipIds, v \in SignalValues : Signal(self, v) /\ UNCHANGED probe
    \/ \E self \in ShipIds : TurnToScan(self) /\ UNCHANGED probe
    \/ UpdatePhysics
    \/ HandleCollisions
    \/ HandleTorpedoes
    \/ EndOfTurn

Spec == Init /\ [][Next]_vars

\* -------------------------------------------------- WrapPosition on its own
\* WrapPosition applied to a position, to the position moved by MoveK worlds
\* along both axes, and to its own result, with PosToCell of the result.
MaxK == 2

ProbeKs == (-MaxK)..MaxK

\* Coordinates in steps of 1/Fine: around zero, around the extent, exact
\* multiples of it, inside.
ProbeXs == {0, -1, -2, -4, 100 * Fine, -100 * Fine, ASTROBOTS_W * Fine,
            -ASTROBOTS_W * Fine, ASTROBOTS_W * Fine - 4}

ProbeYs == {0, -1, -300 * Fine}

MatchVars == <<WorldState, gridCols, gridRows, gridAsteroids, gridShips, phase, turn,
               opsLeft, lastOp, impacts, gameOver, gameWinner>>

WrapInit ==
    /\ InitMatch
    /\ probe \in {[stage |-> "in", x |-> x, y |-> y, k |-> k,
                   out |-> <<0, 0>>, cell |-> <<0, 0>>, moved |-> <<0, 0>>,
                   again |-> <<0, 0>>] : x \in ProbeXs, y \in ProbeYs, k \in ProbeKs}

ApplyWrap ==
    /\ probe.stage = "in"
    /\ LET out == WrapPositionFine(probe.x, probe.y)
       IN probe' = [probe EXCEPT !.stage = "wrapped", !.out = out,
                                 !.cell = PosToCellFine(out[1], out[2])]
    /\ UNCHANGED MatchVars

\* The moved position is handed over when it is a float itself.
ApplyWrapMoved ==
    /\ probe.stage = "wrapped"
    /\ LET mx == probe.x + probe.k * ASTROBOTS_W * Fine
           my == probe.y + probe.k * ASTROBOTS_H * Fine
       IN /\ IsFloat(mx) /\ IsFloat(my)
          /\ probe' = [probe EXCEPT !.stage = "moved", !.moved = WrapPositionFine(mx, my)]
    /\ UNCHANGED MatchVars

ApplyWrapAgain ==
    /\ probe.stage \in {"wrapped", "moved"}
    /\ probe' = [probe EXCEPT !.stage = "again",
                              !.again = WrapPositionFine(probe.out[1], probe.out[2])]
    /\ UNCHANGED MatchVars

WrapNext == ApplyWrap \/ ApplyWrapMoved \/ ApplyWrapAgain

WrapSpec == WrapInit /\ [][WrapNext]_vars


\* ---------------------------------------------- CollectNearCells on its own
\* CollectNearCells applied to a cell, and the tests of a collision pass over
\* one ship and one asteroid.
ProbeCells == {-GridDim(ASTROBOTS_W) - 1, -1, 0, 1, GridDim(ASTROBOTS_W) - 1,
               GridDim(ASTROBOTS_W), 2 * GridDim(ASTROBOTS_W) + 1}

\* Positions at the edges, in the corners and inside.
ProbeSpots == {<<3, 1000>>, <<1000, 5>>, <<2040, 2040>>, <<2044, 1000>>, <<5, 5>>,
               <<300, 1000>>, <<1000, 2044>>}

NearInit ==
    /\ InitMatch
    /\ probe \in {[stage |-> "in", cx |-> cx, cy |-> cy, ship |-> s, asteroid |-> a,
                   out |-> <<>>, tests |-> <<>>] :
                     cx \in ProbeCells, cy \in {-1, 0, GridDim(ASTROBOTS_H)},
                     s \in ProbeSpots, a \in ProbeSpots}

ApplyCollectNearCells ==
    /\ probe.stage = "in"
    /\ probe' = [probe EXCEPT !.stage = "near",
                    !.out = CollectNearCells(GridDim(ASTROBOTS_W), GridDim(ASTROBOTS_H),
                                             probe.cx, probe.cy)]
    /\ UNCHANGED MatchVars

\* RebuildBroadphase and the loops of HandleCollisions down to the test.
ApplyCollisionTests ==
    /\ probe.stage = "near"
    /\ LET cols == GridDim(ASTROBOTS_W)
           rows == GridDim(ASTROBOTS_H)
           shs == <<NewShip(probe.ship[1], probe.ship[2], 0)>>
           asts == <<NewAsteroid(probe.asteroid[1], probe.asteroid[2], 0, 0,
                                 SMALL_ASTEROID_SIZE, SMALL_ASTEROID_HP)>>
       IN probe' = [probe EXCEPT !.stage = "tested",
                       !.tests = CollisionTests(shs, BinAlive(asts, 1, cols, rows),
                                                cols, rows, 1)]
    /\ UNCHANGED MatchVars

NearNext == ApplyCollectNearCells \/ ApplyCollisionTests

NearSpec == NearInit /\ [][NearNext]_vars


\* ------------------------------------------------- the life of a torpedo
\* Two ships face each other away from the asteroids; either may fire a
\* torpedo in a turn early enough for PHOTON_LIFETIME steps of UpdatePhysics
\* to follow, and the turns go on for as long.
LifeTurns == PHOTON_LIFETIME + 1

LifeInit ==
    /\ InitArena(<<NewShip(1000, 300, 0), NewShip(1015, 300, 180)>>,
                 "start", 0, Op("setup", 0, NoArg))
    /\ probe = NoProbe

LifeStartTurn == turn < LifeTurns /\ StartTurnStep

LifeFirePhoton(self) ==
    turn + PHOTON_LIFETIME <= LifeTurns /\ FirePhoton(self) /\ UNCHANGED probe

LifeNext ==
    \/ LifeStartTurn
    \/ \E self \in ShipIds : LifeFirePhoton(self)
    \/ UpdatePhysics
    \/ HandleCollisions
    \/ HandleTorpedoes
    \/ EndOfTurn

\* The application goes on calling endTurn (Application.cpp 66-77), and endTurn
\* runs the passes of a turn in order. Each pass is enabled throughout its
\* phase and is the only step that leaves the phase, so the weak fairness of
\* the phase change is the weak fairness of every pass.
PhaseDone == (phase = "start" => turn < LifeTurns) /\ phase' = NextPhase(phase)

LifeSpec == LifeInit /\ [][LifeNext]_vars /\ WF_phase(PhaseDone)


\* ------------------------------------------------------ Scan and TurnToScan
\* Two turns of a match of two ships and one asteroid, the programs issuing
\* Scan and TurnToScan.  Ship 1 heads for 90 degrees; the other ship and the
\* asteroid, alive or dead, lie on ship 1, at 300 units in four directions,
\* and just inside and just at the range of a scan.
ScanOps == 2

ScanTurns == 2

ScanSpots == {<<1000, 1000>>, <<1300, 1000>>, <<1000, 1300>>, <<700, 1000>>,
              <<1000, 700>>, <<1300, 1300>>, <<1599, 1000>>, <<1600, 1000>>}

ScanInit ==
    /\ \E p \in ScanSpots, q \in ScanSpots, pa \in BOOLEAN, qa \in BOOLEAN :
          InitWorld(<<NewShip(1000, 1000, 90),
                      [NewShip(p[1], p[2], 0) EXCEPT !.alive = pa,
                                                     !.hp = IF pa THEN @ ELSE 0]>>,
                    <<[NewAsteroid(q[1], q[2], 0, 0, SMALL_ASTEROID_SIZE, SMALL_ASTEROID_HP)
                          EXCEPT !.alive = qa, !.hp = IF qa THEN @ ELSE 0]>>,
                    "start", 0, Op("setup", 0, NoArg), ScanOps)
    /\ probe = NoProbe

ScanStartTurn == turn < ScanTurns /\ StartTurnStep

ScanNext ==
    \/ ScanStartTurn
    \/ \E self \in ShipIds : (Scan(self) \/ TurnToScan(self)) /\ UNCHANGED probe
    \/ UpdatePhysics
    \/ HandleCollisions
    \/ HandleTorpedoes
    \/ EndOfTurn

ScanSpec == ScanInit /\ [][ScanNext]_vars


\* ---------------------------------------------------- the programs of ships
\* The interpreter of the ships' programs (ShipBase::Run) and the part of a
\* turn that runs them: after StartTurn every alive ship in turn runs its
\* program, then come the passes.  probe holds the programs (code, one per
\* ship, instruction k of a program p being p[k + 1]), the turn and the ship
\* of the current run, its program counter pc and its flag, and, not in the
\* code, the arena calls of the run (acts), the state it began in (start)
\* and the runs that have ended (runs).
Ins(op, arg) == [op |-> op, arg |-> arg]

ActionOps == {"THRUST", "TURN_DEG", "FIRE_PHASER", "FIRE_PHOTON", "SCAN", "SIGNAL",
              "TURN_TO_SCAN"}

JumpOps == {"JUMP", "JUMP_IF_FALSE"}

\* SCAN, then TURN_TO_SCAN if something was seen and TURN_DEG otherwise: what
\* IF_SEEN() { ... } ELSE() { ... } compiles to.
Hunter == <<Ins("SCAN", 0), Ins("IF_SEEN", 0), Ins("JUMP_IF_FALSE", 5),
            Ins("TURN_TO_SCAN", 0), Ins("JUMP", 6), Ins("TURN_DEG", 45), Ins("END", 0)>>

\* A program with instructions after its END.
Beacon == <<Ins("SIGNAL", 7), Ins("END", 0), Ins("SIGNAL", 8)>>

\* A program without END that tests the flag before it sets it.
Waiter == <<Ins("JUMP_IF_FALSE", 2), Ins("SIGNAL", 9), Ins("IF_CAN_FIRE_PHASER", 0)>>

\* A program that jumps back.
Spinner == <<Ins("WAIT", 0), Ins("JUMP", 0)>>

Programs == {Hunter, Beacon, Waiter, Spinner}

VMTurns == 2

\* Calls enough for every run: none of the programs issues more than two.
VMOps == 4 * VMTurns

\* Variant: a run goes on where the last run of the program stopped.
VMBeginResumed(p, self, st) ==
    [p EXCEPT !.running = TRUE, !.ship = self, !.acts = <<>>, !.start = st]

\* The run of ship self begins.
VMBegin(p, self, st) ==
    [p EXCEPT !.running = TRUE, !.ship = self, !.pc = 0, !.flag = FALSE,
              !.acts = <<>>, !.start = st]

\* Variant: a condition leaves the program counter where it is.
VMTargetHeld(ins, pc, flag) ==
    IF ins.op = "JUMP" THEN ins.arg
    ELSE IF ins.op = "JUMP_IF_FALSE" THEN (IF flag THEN pc + 1 ELSE ins.arg)
    ELSE IF ins.op \in ActionOps \cup {"WAIT"} THEN pc + 1
    ELSE pc

\* The program counter after instruction ins at pc.
VMTarget(ins, pc, flag) ==
    IF ins.op = "JUMP" THEN ins.arg
    ELSE IF ins.op = "JUMP_IF_FALSE" THEN (IF flag THEN pc + 1 ELSE ins.arg)
    ELSE pc + 1

\* The flag after instruction ins of the program of ship s.
VMFlag(ins, s, flag) ==
    CASE ins.op = "IF_SEEN" -> s.scan_hit
      [] ins.op = "IF_SCAN_LE" -> s.scan_hit /\ s.scan_dist <= ins.arg
      [] ins.op = "IF_DAMAGED" -> s.hp < ASTRO_START_HP
      [] ins.op = "IF_HP_LE" -> s.hp <= ins.arg
      [] ins.op = "IF_FUEL_LE" -> s.fuel <= ins.arg * FuelUnit
      [] ins.op = "IF_CAN_FIRE_PHASER" -> s.phaser_cooldown = 0
      [] ins.op = "IF_CAN_FIRE_PHOTON" -> s.photon_cooldown = 0
      [] OTHER -> flag

VMInit ==
    /\ InitWorld(<<NewShip(1000, 1000, 90), NewShip(1300, 1000, 0)>>,
                 <<NewAsteroid(1000, 1500, 0, 0, SMALL_ASTEROID_SIZE, SMALL_ASTEROID_HP)>>,
                 "start", 0, Op("setup", 0, NoArg), VMOps)
    /\ probe \in {[stage |-> "vm", code |-> <<a, b>>, turn |-> 0, ship |-> 0,
                   running |-> FALSE, pc |-> 0, flag |-> FALSE, acts |-> <<>>,
                   start |-> <<>>, runs |-> <<>>] : a \in Programs, b \in Programs}

VMStartTurn == turn < VMTurns /\ StartTurnStep

\* The programs of a new turn are about to run.
VMBeginTurn ==
    /\ phase = "ops"
    /\ probe.turn # turn
    /\ probe' = [probe EXCEPT !.turn = turn, !.ship = 0, !.running = FALSE]
    /\ UNCHANGED MatchVars

\* The next ship's turn to run its program: it does if it is alive.
VMBeginRun ==
    /\ phase = "ops"
    /\ probe.turn = turn /\ ~probe.running /\ probe.ship < Len(ships)
    /\ probe' = IF ships[probe.ship + 1].alive
                THEN VMBegin(probe, probe.ship + 1, <<ships, asteroids, torpedoes>>)
                ELSE [probe EXCEPT !.ship = @ + 1]
    /\ UNCHANGED MatchVars

\* The instruction the current run is at, END beyond the end of the program.
VMAt ==
    LET code == probe.code[probe.ship]
    IN IF probe.pc >= 0 /\ probe.pc < Len(code) THEN code[probe.pc + 1] ELSE Ins("END", 0)

VMRunning == phase = "ops" /\ probe.turn = turn /\ probe.running

\* END, or the end of the program: the run is over.
VMEnd ==
    /\ VMRunning
    /\ VMAt.op = "END"
    /\ probe' = [probe EXCEPT !.running = FALSE,
                    !.runs = Append(@, [ship |-> probe.ship, start |-> probe.start,
                                        acts |-> probe.acts])]
    /\ UNCHANGED MatchVars

\* An action: the call of the arena for the ship.
VMAction ==
    /\ VMRunning
    /\ VMAt.op \in ActionOps
    /\ CASE VMAt.op = "THRUST" -> Thrust(probe.ship, VMAt.arg)
         [] VMAt.op = "TURN_DEG" -> TurnDeg(probe.ship, VMAt.arg)
         [] VMAt.op = "FIRE_PHASER" -> FirePhaser(probe.ship)
         [] VMAt.op = "FIRE_PHOTON" -> FirePhoton(probe.ship)
         [] VMAt.op = "SCAN" -> Scan(probe.ship)
         [] VMAt.op = "SIGNAL" -> Signal(probe.ship, VMAt.arg)
         [] VMAt.op = "TURN_TO_SCAN" -> TurnToScan(probe.ship)
    /\ probe' = [probe EXCEPT !.pc = VMTarget(VMAt, probe.pc, probe.flag),
                             !.acts = Append(@, VMAt)]

\* WAIT, a condition or a jump.
VMControl ==
    /\ VMRunning
    /\ VMAt.op \notin ActionOps \cup {"END"}
    /\ probe' = [probe EXCEPT !.pc = VMTarget(VMAt, probe.pc, probe.flag),
                             !.flag = VMFlag(VMAt, ships[probe.ship], @)]
    /\ UNCHANGED MatchVars

\* All the programs of the turn have run.
VMUpdatePhysics ==
    /\ probe.turn = turn /\ ~probe.running /\ probe.ship = Len(ships)
    /\ UpdatePhysics

VMRun == VMBeginTurn \/ VMBeginRun \/ VMEnd \/ VMAction \/ VMControl

VMNext ==
    \/ VMStartTurn
    \/ VMBeginTurn
    \/ VMBeginRun
    \/ VMEnd
    \/ VMAction
    \/ VMControl
    \/ VMUpdatePhysics
    \/ HandleCollisions
    \/ HandleTorpedoes
    \/ EndOfTurn

\* A pass is enabled throughout its phase, once the programs have run, and
\* is the only step that leaves the phase.
VMPhaseDone ==
    /\ phase = "start" => turn < VMTurns
    /\ phase = "ops" => probe.turn = turn /\ ~probe.running /\ probe.ship = Len(ships)
    /\ phase' = NextPhase(phase)

\* The interpreter executes one instruction after the other, and advanceTurn
\* one step of the turn after the other.
VMSpec == VMInit /\ [][VMNext]_vars /\ WF_probe(VMRun) /\ WF_phase(VMPhaseDone)


\* ------------------------------------------------- the debris of a ship
\* Ship 3, down to its last hit point, sits on an asteroid and is destroyed
\* in the first collision pass; ships 1 and 2, as weak, face each other, and
\* either may fire a torpedo in the first turns.  The turns go on until the
\* debris of both has gone.
DebrisTurns == SHIP_DEBRIS_LIFETIME + 15

DebrisFireBy == 4

DebrisInit ==
    /\ InitWorld(<<[NewShip(1000, 300, 0) EXCEPT !.hp = 1],
                   [NewShip(1015, 300, 180) EXCEPT !.hp = 1],
                   [NewShip(500, 1500, 0) EXCEPT !.hp = 1]>>,
                 <<NewAsteroid(500, 1500, 0, 0, MEDIUM_ASTEROID_SIZE, MEDIUM_ASTEROID_HP)>>,
                 "start", 0, Op("setup", 0, NoArg), MaxOps)
    /\ probe = NoProbe

DebrisStartTurn == turn < DebrisTurns /\ StartTurnStep

DebrisFirePhoton(self) == turn <= DebrisFireBy /\ FirePhoton(self) /\ UNCHANGED probe

DebrisNext ==
    \/ DebrisStartTurn
    \/ \E self \in ShipIds : DebrisFirePhoton(self)
    \/ UpdatePhysics
    \/ HandleCollisions
    \/ HandleTorpedoes
    \/ EndOfTurn

DebrisSpec == DebrisInit /\ [][DebrisNext]_vars


\* ------------------------------------------------------ a collision pass
\* Three ships crowd on a medium and a large asteroid: ship 2, down to its
\* last hit point or not, is destroyed in the pass or not, the medium
\* asteroid loses its two hit points to two of the ships, and its fragments
\* appear under them.
CollideTurns == 1

CollideInit ==
    /\ \E hp \in {1, 2, ASTRO_START_HP}, x \in {1004, 1020, 1040} :
          InitWorld(<<NewShip(1000, 1000, 0),
                      [NewShip(1004, 1000, 0) EXCEPT !.hp = hp],
                      NewShip(x, 1004, 90)>>,
                    <<NewAsteroid(1002, 1000, 0, 0, MEDIUM_ASTEROID_SIZE, MEDIUM_ASTEROID_HP),
                      NewAsteroid(1004, 1004, 0, 0, LARGE_ASTEROID_SIZE, LARGE_ASTEROID_HP)>>,
                    "start", 0, Op("setup", 0, NoArg), MaxOps)
    /\ probe = NoProbe

CollideStartTurn == turn < CollideTurns /\ StartTurnStep

CollideNext ==
    \/ CollideStartTurn
    \/ UpdatePhysics
    \/ HandleCollisions
    \/ HandleTorpedoes
    \/ EndOfTurn

CollideSpec == CollideInit /\ [][CollideNext]_vars


\* ------------------------------------------------------- the application
\* RenderGame: a frame advances the turn (endTurn, the steps of Next) when the
\* interval has gone by, and while the game is over it offers Reset Game,
\* which stops the game and sets the board up again.
ResetGame ==
    /\ gameOver
    /\ gameOver' = FALSE
    /\ gameWinner' = -1
    /\ ships' = InitShips
    /\ asteroids' = InitAsteroids
    /\ torpedoes' = <<>>
    /\ phaserBeams' = <<>>
    /\ particles' = 0
    /\ shipDebris' = <<>>
    /\ signals' = <<>>
    /\ log' = <<>>
    /\ gridCols' = 0
    /\ gridRows' = 0
    /\ gridAsteroids' = <<>>
    /\ gridShips' = <<>>
    /\ phase' = "start"
    /\ turn' = 0
    /\ opsLeft' = MaxOps
    /\ lastOp' = Op("setup", 0, NoArg)
    /\ impacts' = <<>>
    /\ UNCHANGED probe

AppNext == Next \/ ResetGame

AppSpec == Init /\ [][AppNext]_vars


\* ------------------------------------------------- the edges of the arena
\* Ship 1 drifts to the right edge or rests next to it, facing it; ship 2
\* drifts to the top edge or rests next to it; ship 3 faces a medium asteroid
\* that drifts to the left edge, within phaser range.
EdgeTurns == 2

EdgeOps == 2

EdgeInit ==
    /\ \E v \in {0, 3} :
          InitWorld(<<[NewShip(2046, 1000, 0) EXCEPT !.vx = v],
                      [NewShip(1000, 1, 270) EXCEPT !.vy = v - 3],
                      NewShip(300, 500, 180)>>,
                    <<NewAsteroid(3, 500, -2, 0, MEDIUM_ASTEROID_SIZE, MEDIUM_ASTEROID_HP)>>,
                    "start", 0, Op("setup", 0, NoArg), EdgeOps)
    /\ probe = NoProbe

EdgeStartTurn == turn < EdgeTurns /\ StartTurnStep

EdgeNext ==
    \/ EdgeStartTurn
    \/ \E self \in ShipIds, p \in ThrustPowers : Thrust(self, p) /\ UNCHANGED probe
    \/ \E self \in ShipIds : FirePhaser(self) /\ UNCHANGED probe
    \/ \E self \in ShipIds : FirePhoton(self) /\ UNCHANGED probe
    \/ UpdatePhysics
    \/ HandleCollisions
    \/ HandleTorpedoes
    \/ EndOfTurn

EdgeSpec == EdgeInit /\ [][EdgeNext]_vars

\* ================================================================ properties
\* What the primitives and the passes act on.
WorldVars == <<ships, asteroids, torpedoes, phaserBeams, particles, shipDebris, signals, log>>

Primitives == {"Thrust", "TurnDeg", "FirePhaser", "FirePhoton", "Scan", "Signal", "TurnToScan"}

\* The step is the primitive `name`, invoked for ship lastOp'.self.
Issued(name) == opsLeft' = opsLeft - 1 /\ lastOp'.op = name

\* C1: in every reachable state every ship's fuel lies between 0 and
\* ASTRO_START_FUEL, whatever thrusts, pickups and hit rewards came before.
C1_FuelWithinBounds ==
    \A i \in ShipIds : ships[i].fuel >= 0 /\ ships[i].fuel <= ASTRO_START_FUEL

\* C2: FirePhaser on a ship whose phaser_cooldown > 0 and FirePhoton on a ship
\* whose photon_cooldown > 0 change nothing of the world.
C2_FiringOnCooldownChangesNothing ==
    [][ (\/ Issued("FirePhaser") /\ ships[lastOp'.self].phaser_cooldown > 0
         \/ Issued("FirePhoton") /\ ships[lastOp'.self].photon_cooldown > 0)
        => UNCHANGED WorldVars ]_vars

\* A torpedo launch was asked of an alive ship in the middle of its cooldown.
C2_Witness ==
    /\ lastOp.op = "FirePhoton"
    /\ ships[lastOp.self].alive
    /\ ships[lastOp.self].photon_cooldown > 0
    /\ ships[lastOp.self].photon_cooldown < PHOTON_COOLDOWN

CooldownsWithinBounds ==
    \A i \in ShipIds :
        /\ ships[i].phaser_cooldown >= 0 /\ ships[i].phaser_cooldown <= PHASER_COOLDOWN
        /\ ships[i].photon_cooldown >= 0 /\ ships[i].photon_cooldown <= PHOTON_COOLDOWN

CountedDown(before, after) == after = IF before > 0 THEN before - 1 ELSE 0

\* C3: a successful FirePhaser sets phaser_cooldown to PHASER_COOLDOWN, a
\* successful FirePhoton sets photon_cooldown to PHOTON_COOLDOWN; StartTurn
\* lowers every non-zero cooldown of an alive ship by exactly 1 and leaves a
\* zero cooldown at zero; both cooldowns stay between 0 and their constant.
C3_Cooldowns ==
    /\ []CooldownsWithinBounds
    /\ [][ /\ (Issued("FirePhaser") /\ ships[lastOp'.self].alive
                  /\ ships[lastOp'.self].phaser_cooldown = 0)
              => ships'[lastOp'.self].phaser_cooldown = PHASER_COOLDOWN
           /\ (Issued("FirePhoton") /\ ships[lastOp'.self].alive
                  /\ ships[lastOp'.self].photon_cooldown = 0)
              => ships'[lastOp'.self].photon_cooldown = PHOTON_COOLDOWN
           /\ (turn' = turn + 1)
              => \A i \in ShipIds : ships[i].alive =>
                    /\ CountedDown(ships[i].phaser_cooldown, ships'[i].phaser_cooldown)
                    /\ CountedDown(ships[i].photon_cooldown, ships'[i].photon_cooldown) ]_vars

\* A turn has started with a phaser fired the turn before.
C3_Witness ==
    /\ lastOp.op = "StartTurn"
    /\ \E i \in ShipIds : ships[i].alive /\ ships[i].phaser_cooldown = PHASER_COOLDOWN - 1

\* The step is a HandleTorpedoes pass.
TorpedoPass == lastOp'.op = "HandleTorpedoes" /\ phase = "torpedoes"

ImpactsOn(kind, i) ==
    {k \in 1..Len(impacts') : impacts'[k].hitType = kind /\ impacts'[k].hitIndex = i}

\* C4: in a HandleTorpedoes pass a ship loses hit points or its life only to
\* torpedoes of other ships; no torpedo's impact is on its owner, even when
\* the owner's capsule is the earliest shape its sweep touches.
C4_NoSelfHit ==
    [][ TorpedoPass =>
          /\ \A k \in 1..Len(impacts') :
                ~(impacts'[k].hitType = "ship" /\ impacts'[k].hitIndex = impacts'[k].owner)
          /\ \A i \in ShipIds :
                (ships'[i].hp < ships[i].hp \/ (ships[i].alive /\ ~ships'[i].alive))
                => \E k \in ImpactsOn("ship", i) : impacts'[k].owner # i ]_vars

\* A torpedo's sweep touched its owner no later than the shape it hit.
C4_Witness ==
    \E k \in 1..Len(impacts) :
        /\ impacts[k].ownerToi # NoHit
        /\ impacts[k].ownerToi <= impacts[k].toi
        /\ impacts[k].hitIndex # impacts[k].owner \/ impacts[k].hitType = "ast"

SeenOf(e) == {e.seen[n] : n \in 1..Len(e.seen)}

\* C5: the impact a torpedo applies has the least time of impact of all the
\* candidates its sweep met, and is one of them.
C5_EarliestImpact ==
    \A k \in 1..Len(impacts) :
        /\ \A c \in SeenOf(impacts[k]) : impacts[k].toi <= c.toi
        /\ \E c \in SeenOf(impacts[k]) :
              /\ c.kind = impacts[k].hitType
              /\ c.index = impacts[k].hitIndex
              /\ c.toi = impacts[k].toi

\* A sweep met two shapes at different times and the earlier one was hit.
C5_Witness ==
    \E k \in 1..Len(impacts) :
        \E c, d \in SeenOf(impacts[k]) :
            /\ <<c.kind, c.index>> # <<d.kind, d.index>>
            /\ c.toi < d.toi
            /\ c.kind = impacts[k].hitType /\ c.index = impacts[k].hitIndex

\* The torpedoes a pass deactivates, the ships it damages, the asteroids it
\* fragments.
Deactivated == {ti \in 1..Len(torpedoes) : torpedoes[ti].alive /\ ~torpedoes'[ti].alive}

Damaged == {i \in ShipIds : ships'[i].hp < ships[i].hp}

Fragmented == {j \in 1..Len(asteroids) : asteroids[j].alive /\ ~asteroids'[j].alive}

\* C6: in a HandleTorpedoes pass every torpedo that registers an impact was
\* alive, registers one impact only, on one ship or one asteroid, and is dead
\* after the pass; no more ships are damaged and asteroids fragmented than
\* torpedoes are deactivated; a torpedo that is not alive registers nothing.
C6_OneImpactPerTorpedo ==
    [][ TorpedoPass =>
          /\ \A k \in 1..Len(impacts') :
                /\ torpedoes[impacts'[k].torp].alive
                /\ ~torpedoes'[impacts'[k].torp].alive
                /\ impacts'[k].hitType \in {"ship", "ast"}
                /\ \A n \in 1..Len(impacts') : impacts'[n].torp = impacts'[k].torp => n = k
          /\ Deactivated = {impacts'[k].torp : k \in 1..Len(impacts')}
          /\ Cardinality(Damaged) + Cardinality(Fragmented) <= Cardinality(Deactivated)
          /\ \A k \in 1..Len(impacts') :
                IF impacts'[k].hitType = "ship"
                THEN impacts'[k].hitIndex \in Damaged
                ELSE impacts'[k].hitIndex \in Fragmented
          /\ \A i \in Damaged : ImpactsOn("ship", i) # {}
          /\ \A j \in Fragmented : ImpactsOn("ast", j) # {}
          /\ Len(torpedoes') = Len(torpedoes) ]_vars

\* A pass has deactivated a torpedo on its impact.
C6_Witness ==
    /\ lastOp.op = "HandleTorpedoes"
    /\ \E k \in 1..Len(impacts) : ~torpedoes[impacts[k].torp].alive

\* C7: right after StartTurn every alive ship has scan_hit = FALSE and
\* signal = -1 and the signals list is empty.
C7_StartTurnResets ==
    lastOp.op = "StartTurn" =>
        /\ signals = <<>>
        /\ \A i \in ShipIds : ships[i].alive => ~ships[i].scan_hit /\ ships[i].signal = -1

\* A turn has started for a ship whose scan found something the turn before.
C7_Witness ==
    /\ lastOp.op = "StartTurn"
    /\ \E i \in ShipIds :
          ships[i].alive /\ ships[i].scan_dist > 0 /\ ships[i].scan_dist < ASTRO_SCAN_RANGE

\* The asteroids a step appends as children of asteroid j.
Children(j) ==
    {k \in (Len(asteroids) + 1)..Len(asteroids') : asteroids'[k].parent = j}

ChildrenAre(j, size, hp) ==
    /\ Cardinality(Children(j)) \in {2, 3}
    /\ \A k \in Children(j) :
          asteroids'[k].alive /\ asteroids'[k].size = size /\ asteroids'[k].hp = hp

\* The ships a step rewards for an asteroid hit.
Rewarded ==
    IF lastOp'.op = "FirePhaser" THEN {lastOp'.self}
    ELSE IF lastOp'.op = "HandleTorpedoes"
    THEN {impacts'[k].owner : k \in 1..Len(impacts')}
    ELSE {}

\* C8: a broken large asteroid is dead and leaves 2 or 3 alive medium
\* asteroids with MEDIUM_ASTEROID_HP, a broken medium one 2 or 3 alive small
\* asteroids with SMALL_ASTEROID_HP, a broken small one no asteroid and more
\* fuel for at most one ship; asteroids appear in no other way.
C8_BreakAsteroid ==
    [][ /\ \A j \in Fragmented :
              IF asteroids[j].size = LARGE_ASTEROID_SIZE
              THEN ChildrenAre(j, MEDIUM_ASTEROID_SIZE, MEDIUM_ASTEROID_HP)
              ELSE IF asteroids[j].size = MEDIUM_ASTEROID_SIZE
              THEN ChildrenAre(j, SMALL_ASTEROID_SIZE, SMALL_ASTEROID_HP)
              ELSE asteroids[j].size = SMALL_ASTEROID_SIZE /\ Children(j) = {}
        /\ \A k \in (Len(asteroids) + 1)..Len(asteroids') : asteroids'[k].parent \in Fragmented
        /\ Len(asteroids') >= Len(asteroids)
        /\ Fragmented # {} =>
              Cardinality({i \in ShipIds : ships'[i].fuel > ships[i].fuel} \ Rewarded)
                 <= Cardinality({j \in Fragmented : asteroids[j].size = SMALL_ASTEROID_SIZE})
      ]_vars

\* A large asteroid has been broken into three.
C8_Witness ==
    \E j \in 1..Len(asteroids) :
        /\ ~asteroids[j].alive
        /\ asteroids[j].size = LARGE_ASTEROID_SIZE
        /\ Cardinality({k \in 1..Len(asteroids) : asteroids[k].parent = j}) = 3

\* C9: the fuel of a broken small asteroid goes to the alive ship nearest to
\* it within the pickup radius, to no farther ship.
C9_PickupToNearest ==
    [][ \A n \in (Len(log) + 1)..Len(log') :
          log'[n].kind = "collects fuel" =>
             \E j \in Fragmented :
                /\ asteroids[j].size = SMALL_ASTEROID_SIZE
                /\ \A i \in ShipIds :
                      ships'[i].alive =>
                         Distance2(ships[i].x, ships[i].y, asteroids[j].x, asteroids[j].y)
                           >= Distance2(ships[log'[n].who].x, ships[log'[n].who].y,
                                        asteroids[j].x, asteroids[j].y) ]_vars

\* C10: a primitive invoked for a ship that is not alive changes nothing of
\* the world.
C10_DeadShipNoOp ==
    [][ (\E name \in Primitives : Issued(name)) /\ ~ships[lastOp'.self].alive
        => UNCHANGED WorldVars ]_vars

\* A thrust was asked of a ship that is not alive.
C10_Witness ==
    /\ lastOp.op = "Thrust"
    /\ lastOp.arg > 0
    /\ ~ships[lastOp.self].alive

\* The lines of the log that report the destruction of ship i.
DestructionLines(i) ==
    {n \in 1..Len(log) : log[n].kind \in {"destroyed", "destroyed by asteroid"} /\ log[n].who = i}

\* C11: a ship whose hp has come to 0 or less by a phaser hit, a torpedo hit
\* or a collision is not alive after that operation and has exactly one
\* destruction line in the log; an alive ship has hp >= 1 and no such line.
C11_DeadAtZeroHp ==
    \A i \in ShipIds :
        IF ships[i].alive
        THEN ships[i].hp >= 1 /\ DestructionLines(i) = {}
        ELSE ships[i].hp <= 0 /\ Cardinality(DestructionLines(i)) = 1

\* A ship was destroyed by a phaser hit.
C11_Witness ==
    /\ lastOp.op = "FirePhaser"
    /\ \E i \in ShipIds :
          /\ ~ships[i].alive /\ ships[i].hp <= 0
          /\ \E n \in 1..Len(log) : log[n].kind = "phaser hit" /\ log[n].whom = i

\* C12: the hp of an alive ship never increases in any operation, and never
\* exceeds ASTRO_START_HP.
C12_HpNeverIncreases ==
    /\ [](\A i \in ShipIds : ships[i].hp <= ASTRO_START_HP)
    /\ [][ \A i \in ShipIds : ships[i].alive => ships'[i].hp <= ships[i].hp ]_vars

\* A ship has come out of a collision alive, with fewer hit points.
C12_Witness ==
    /\ lastOp.op = "HandleCollisions"
    /\ \E p \in lastOp.arg : ships[p[1]].alive /\ ships[p[1]].hp < ASTRO_START_HP

\* C13 as stated: no operation flags an asteroid dead whose hp is still >= 1.
C13_AsteroidDeadOnlyAtZeroHp ==
    \A j \in 1..Len(asteroids) : ~asteroids[j].alive => asteroids[j].hp <= 0

\* The asteroids that the step flags dead.
Dying == {j \in 1..Len(asteroids) : asteroids[j].alive /\ ~asteroids'[j].alive}

\* C13: a ship collision flags an asteroid dead only when the asteroid's hp
\* has reached zero; a phaser hit or a torpedo hit flags the one asteroid it
\* hits dead with its hp untouched, whatever that hp is; no other operation
\* flags an asteroid dead.
C13_AsteroidDeath ==
    [][ \A j \in Dying :
           \/ /\ lastOp'.op = "HandleCollisions"
              /\ asteroids'[j].hp <= 0
           \/ /\ lastOp'.op = "FirePhaser"
              /\ asteroids'[j].hp = asteroids[j].hp
              /\ Dying = {j}
           \/ /\ lastOp'.op = "HandleTorpedoes"
              /\ asteroids'[j].hp = asteroids[j].hp
              /\ \E n \in 1..Len(impacts') :
                     impacts'[n].hitType = "ast" /\ impacts'[n].hitIndex = j ]_vars

\* A phaser has broken an asteroid that had hit points left, and a collision
\* pass has taken the last hit point of another.
C13_Witness ==
    /\ \E j \in 1..Len(asteroids) : ~asteroids[j].alive /\ asteroids[j].hp >= 1
    /\ \E j \in 1..Len(asteroids) : ~asteroids[j].alive /\ asteroids[j].hp <= 0

\* C14: after EndOfTurn, if exactly one ship is alive the match is over and
\* that ship is the winner; if no ship is alive the match is over and drawn
\* (gameWinner = -1); if two or more ships are alive and the turn limit has
\* not been reached, gameOver is false.
C14_EndOfTurn ==
    lastOp.op = "EndOfTurn" =>
        /\ Cardinality(AliveShips) = 1 => gameOver /\ gameWinner \in AliveShips
        /\ AliveShips = {} => gameOver /\ gameWinner = -1
        /\ Cardinality(AliveShips) >= 2 /\ turn < ASTRO_MAX_TURNS => ~gameOver

\* Nobody is left at the end of a turn, ship 2 having run into an asteroid.
C14_Witness ==
    /\ lastOp.op = "EndOfTurn"
    /\ AliveShips = {}
    /\ gameOver /\ gameWinner = -1
    /\ \E n \in 1..Len(log) : log[n].kind = "destroyed by asteroid" /\ log[n].who = 2

\* The step is a FirePhaser that passes the alive and cooldown checks.
PhaserFired == Issued("FirePhaser") /\ ~FirePhaserRejected(lastOp'.self)

\* The ships whose hp the step changes.
Hurt == {i \in ShipIds : ships'[i].hp # ships[i].hp}

\* The step logs a fuel pickup of ship i.
Collects(i) ==
    \E n \in (Len(log) + 1)..Len(log') : log'[n].kind = "collects fuel" /\ log'[n].who = i

\* What a successful FirePhaser of ship lastOp'.self does, given the ray
\* cast results lastOp'.arg; withPickup tells whether the firer's own fuel
\* pickup from the asteroid it breaks is counted next to the hit reward.
PhaserOutcome(withPickup) ==
    LET self == lastOp'.self
        ray == lastOp'.arg
        hits == {sh \in DOMAIN ray : ray[sh] # NoHit}
        closest == {sh \in hits : \A o \in hits : ray[sh] <= ray[o]}
        before == IF withPickup /\ Collects(self)
                  THEN Min2(ships[self].fuel + FUEL_PICKUP_AMOUNT, ASTRO_START_FUEL)
                  ELSE ships[self].fuel
        ShipHit(i) ==
            /\ <<"ship", i>> \in closest
            /\ i # self /\ ships[i].alive
            /\ Hurt = {i}
            /\ ships'[i].hp = ships[i].hp - PHASER_DAMAGE
            /\ asteroids' = asteroids
            /\ ships'[self].fuel = ships[self].fuel
        AsteroidHit(j) ==
            /\ <<"ast", j>> \in closest
            /\ asteroids[j].alive
            /\ Dying = {j}
            /\ \A k \in 1..Len(asteroids) : k # j => asteroids'[k] = asteroids[k]
            /\ Hurt = {}
            /\ ships'[self].fuel = Min2(before + FUEL_HIT_REWARD, ASTRO_START_FUEL)
        Miss ==
            /\ hits = {}
            /\ asteroids' = asteroids
            /\ ships' = [ships EXCEPT ![self].phaser_cooldown = PHASER_COOLDOWN]
    IN /\ Cardinality({i \in ShipIds : ShipHit(i)})
            + Cardinality({j \in 1..Len(asteroids) : AsteroidHit(j)})
            + (IF Miss THEN 1 ELSE 0) = 1
       /\ ships'[self].hp = ships[self].hp
       /\ \A i \in ShipIds : ~ships[i].alive => ships'[i] = ships[i]

PhysicsSteps == IF phase = "ops" THEN turn - 1 ELSE turn

\* The UpdatePhysics steps taken since beam b was appended, in turn b.born.
StepsSince(b) == PhysicsSteps - (b.born - 1)

\* C16: a FirePhaser that passes the alive and cooldown checks appends
\* exactly one alive beam of lifetime 3 to phaserBeams, whatever it hits; a
\* rejected FirePhaser appends none; a beam is alive through the first two
\* UpdatePhysics steps after it and dead from the third on.
C16_Beams ==
    /\ [][ PhaserFired =>
             /\ Len(phaserBeams') = Len(phaserBeams) + 1
             /\ SubSeq(phaserBeams', 1, Len(phaserBeams)) = phaserBeams
             /\ phaserBeams'[Len(phaserBeams')].alive
             /\ phaserBeams'[Len(phaserBeams')].lifetime = 3 ]_vars
    /\ [][ Issued("FirePhaser") /\ FirePhaserRejected(lastOp'.self)
             => phaserBeams' = phaserBeams ]_vars
    /\ [](\A n \in 1..Len(phaserBeams) :
             /\ phaserBeams[n].alive <=> StepsSince(phaserBeams[n]) < 3
             /\ phaserBeams[n].lifetime = 3 - Min2(StepsSince(phaserBeams[n]), 3))

\* The third UpdatePhysics step after a phaser shot has just been taken and
\* its beam is dead.
C16_Witness ==
    /\ lastOp.op = "UpdatePhysics"
    /\ \E n \in 1..Len(phaserBeams) :
          ~phaserBeams[n].alive /\ StepsSince(phaserBeams[n]) = 3

Degrees == 0..359

\* C17: every ship's angle and targetAngle lie in [0, 360) in every
\* reachable state; TurnDeg leaves the target at its argument modulo 360,
\* TurnToScan at the angle of the scan; an UpdatePhysics step takes the angle
\* of an alive ship exactly to targetAngle when they differ by at most
\* ROTATION_SPEED, and ROTATION_SPEED closer to it otherwise.
C17_Angles ==
    /\ [](\A i \in ShipIds : ships[i].angle \in Degrees /\ ships[i].targetAngle \in Degrees)
    /\ [][ Issued("TurnDeg") /\ ships[lastOp'.self].alive
             => (ships'[lastOp'.self].targetAngle - lastOp'.arg) % 360 = 0 ]_vars
    /\ [][ Issued("TurnToScan") /\ ships[lastOp'.self].alive /\ ships[lastOp'.self].scan_hit
             => ships'[lastOp'.self].targetAngle = ships[lastOp'.self].scan_angle ]_vars
    /\ [][ lastOp'.op = "UpdatePhysics" =>
             \A i \in ShipIds : ships[i].alive =>
                LET left == Abs(AngleDifference(ships[i].angle, ships[i].targetAngle))
                IN IF left <= ROTATION_SPEED
                   THEN ships'[i].angle = ships[i].targetAngle
                   ELSE Abs(AngleDifference(ships'[i].angle, ships[i].targetAngle))
                            = left - ROTATION_SPEED ]_vars

\* A ship turned by TurnDeg(362) has come to its target of 2 degrees, less
\* than ROTATION_SPEED away, in one UpdatePhysics step.
C17_Witness ==
    /\ lastOp.op = "UpdatePhysics"
    /\ \E i \in ShipIds : ships[i].alive /\ ships[i].angle = 2 /\ ships[i].targetAngle = 2

C19_WrapRange ==
    probe.stage \in {"wrapped", "moved", "again"} =>
        /\ probe.out[1] >= 0 /\ probe.out[1] < ASTROBOTS_W * Fine
        /\ probe.out[2] >= 0 /\ probe.out[2] < ASTROBOTS_H * Fine
        /\ probe.cell[1] \in 0..(GridDim(ASTROBOTS_W) - 1)
        /\ probe.cell[2] \in 0..(GridDim(ASTROBOTS_H) - 1)

\* A position so little below zero that the sum with the extent rounds to the
\* extent comes out at 0.
C19_Witness ==
    /\ probe.stage = "wrapped"
    /\ probe.x = -1 /\ probe.out[1] = 0
    /\ probe.y = -300 * Fine /\ probe.out[2] = (ASTROBOTS_H - 300) * Fine

\* The step is a collision pass: it starts with RebuildBroadphase.
Rebuilt == lastOp'.op \in {"HandleCollisions", "HandleTorpedoes"}

\* The bucket of the cell of the torus that holds position (e.x, e.y).
CellOf(e, cols, rows) ==
    ((e.y \div gridCellSize) % rows) * cols + ((e.x \div gridCellSize) % cols)

\* The grid holds each alive item of `items` once, in the bucket of its cell,
\* and nothing else.
BinnedExactly(grid, items, cols, rows) ==
    /\ \A n \in 1..Len(grid) : grid[n].idx \in 1..Len(items)
    /\ \A i \in 1..Len(items) :
          LET at == {n \in 1..Len(grid) : grid[n].idx = i}
          IN IF items[i].alive
             THEN \E n \in at : at = {n} /\ grid[n].cell = CellOf(items[i], cols, rows)
             ELSE at = {}

\* C20: the grid RebuildBroadphase leaves holds every ship and every asteroid
\* that is alive when the pass starts exactly once, in the bucket of the cell
\* of its position, and no ship or asteroid that is not alive; nothing else
\* is in it, whatever the rebuild before left.
C20_RebuildBroadphase ==
    [][ Rebuilt =>
          /\ gridCols' = GridDim(ASTROBOTS_W) /\ gridRows' = GridDim(ASTROBOTS_H)
          /\ BinnedExactly(gridShips', ships, gridCols', gridRows')
          /\ BinnedExactly(gridAsteroids', asteroids, gridCols', gridRows') ]_vars

\* The torpedo pass has rebuilt the grid after a collision pass that killed a
\* ship and broke an asteroid: the ship has left the grid, a fragment is in.
C20_Witness ==
    /\ lastOp.op = "HandleTorpedoes"
    /\ \E i \in ShipIds :
          /\ ~ships[i].alive
          /\ \E n \in 1..Len(log) : log[n].kind = "destroyed by asteroid" /\ log[n].who = i
          /\ \A n \in 1..Len(gridShips) : gridShips[n].idx # i
    /\ \E j \in 1..Len(asteroids) :
          /\ asteroids[j].parent # 0
          /\ \E n \in 1..Len(gridAsteroids) : gridAsteroids[n].idx = j

\* The cell of the torus at offset (dx, dy) from cell (cx, cy).
TorusCell(cx, cy, dx, dy) ==
    ((cy + dy) % GridDim(ASTROBOTS_H)) * GridDim(ASTROBOTS_W)
        + ((cx + dx) % GridDim(ASTROBOTS_W))

\* The cells of two positions are the same or neighbours on the torus.
AdjacentCells(p, q) ==
    LET a == PosToCell(p[1], p[2])
        b == PosToCell(q[1], q[2])
    IN /\ (b[1] - a[1]) % GridDim(ASTROBOTS_W) \in {0, 1, GridDim(ASTROBOTS_W) - 1}
       /\ (b[2] - a[2]) % GridDim(ASTROBOTS_H) \in {0, 1, GridDim(ASTROBOTS_H) - 1}

\* C21: for any cell coordinates, negative and beyond the grid included,
\* CollectNearCells returns nine indices, those of the cells
\* ((cx+dx) mod gridCols, (cy+dy) mod gridRows) for dx, dy in {-1, 0, 1}, each
\* in [0, gridCols*gridRows); and a ship and an asteroid whose cells are the
\* same or neighbours on the torus are tested in the ship-asteroid pass.
C21_NearCells ==
    /\ probe.stage \in {"near", "tested"} =>
          /\ Len(probe.out) = 9
          /\ \A k \in 1..Len(probe.out) :
                /\ probe.out[k] = TorusCell(probe.cx, probe.cy, NearOffsets[k][1],
                                            NearOffsets[k][2])
                /\ probe.out[k] \in 0..(GridDim(ASTROBOTS_W) * GridDim(ASTROBOTS_H) - 1)
    /\ probe.stage = "tested" /\ AdjacentCells(probe.ship, probe.asteroid)
          => \E k \in 1..Len(probe.tests) : probe.tests[k] = <<1, 1>>

\* The cell is left of the grid, the ship is in column 0 and the asteroid in
\* the last column: the pass tests them.
C21_Witness ==
    /\ probe.stage = "tested"
    /\ probe.cx = -1
    /\ PosToCell(probe.ship[1], probe.ship[2])[1] = 0
    /\ PosToCell(probe.asteroid[1], probe.asteroid[2])[1] = GridDim(ASTROBOTS_W) - 1
    /\ probe.tests = << <<1, 1>> >>

\* Torpedo n exists and is alive; exists and is dead.
TorpedoAlive(n) == Len(torpedoes) >= n /\ torpedoes[n].alive

TorpedoDead(n) == Len(torpedoes) >= n /\ ~torpedoes[n].alive

\* C22: a torpedo FirePhoton creates is alive with lifetime PHOTON_LIFETIME;
\* each UpdatePhysics step lowers the lifetime of an alive torpedo by exactly
\* 1; a torpedo is not alive after the PHOTON_LIFETIME-th such step after its
\* creation, hit or no hit; and every torpedo eventually is dead.
C22_TorpedoDies ==
    /\ [][ Issued("FirePhoton") /\ ~FirePhotonRejected(lastOp'.self) =>
             /\ Len(torpedoes') = Len(torpedoes) + 1
             /\ torpedoes'[Len(torpedoes')].alive
             /\ torpedoes'[Len(torpedoes')].lifetime = PHOTON_LIFETIME ]_vars
    /\ [][ lastOp'.op = "UpdatePhysics" =>
             \A n \in 1..Len(torpedoes) : torpedoes[n].alive =>
                torpedoes'[n].lifetime = torpedoes[n].lifetime - 1 ]_vars
    /\ [](\A n \in 1..Len(torpedoes) :
             /\ torpedoes[n].alive =>
                   torpedoes[n].lifetime = PHOTON_LIFETIME - StepsSince(torpedoes[n])
             /\ StepsSince(torpedoes[n]) >= PHOTON_LIFETIME => ~torpedoes[n].alive)
    /\ \A n \in 1..MaxOps : TorpedoAlive(n) ~> TorpedoDead(n)

\* A torpedo that hit nothing has died of age, in the PHOTON_LIFETIME-th
\* UpdatePhysics step after it was fired.
C22_Witness ==
    /\ lastOp.op = "UpdatePhysics"
    /\ \E n \in 1..Len(torpedoes) :
          /\ ~torpedoes[n].alive
          /\ torpedoes[n].lifetime = 0
          /\ StepsSince(torpedoes[n]) = PHOTON_LIFETIME

\* C23: a TurnToScan of a ship that has had no successful Scan earlier in the
\* same turn, or that comes right after a Scan of the ship that found
\* nothing, leaves the ship's targetAngle as it was, whatever a Scan of an
\* earlier turn found.
C23_TurnToScanNeedsScan ==
    [][ /\ Issued("TurnToScan")
        /\ \/ ships[lastOp'.self].scanned # turn
           \/ /\ lastOp.op = "Scan"
              /\ lastOp.self = lastOp'.self
              /\ ~ships[lastOp'.self].scan_hit
        => ships'[lastOp'.self].targetAngle = ships[lastOp'.self].targetAngle ]_vars

\* Ship 1 turns to its scan in the second turn; its Scan of the first turn
\* found something in another direction than the one it heads for.
C23_Witness ==
    /\ lastOp.op = "TurnToScan"
    /\ turn = 2
    /\ LET s == ships[lastOp.self]
       IN /\ s.alive
          /\ s.scanned = 1
          /\ s.scan_dist < ASTRO_SCAN_RANGE
          /\ s.scan_angle # s.targetAngle

\* What a scan of ship self can report: the other alive ships and the alive
\* asteroids, each with the square of its distance and its bearing.
Scannable(self) ==
    {[d2 |-> Distance2(ships[self].x, ships[self].y, ships[i].x, ships[i].y),
      angle |-> AngleTo(ships[self].x, ships[self].y, ships[i].x, ships[i].y)] :
        i \in {k \in ShipIds : k # self /\ ships[k].alive}}
    \cup
    {[d2 |-> Distance2(ships[self].x, ships[self].y, asteroids[j].x, asteroids[j].y),
      angle |-> AngleTo(ships[self].x, ships[self].y, asteroids[j].x, asteroids[j].y)] :
        j \in {k \in 1..Len(asteroids) : asteroids[k].alive}}

InScanRange(self) ==
    {e \in Scannable(self) : e.d2 < ASTRO_SCAN_RANGE * ASTRO_SCAN_RANGE}

\* C29: after Scan on an alive ship, scan_hit tells whether another alive
\* ship or an alive asteroid lies at a distance below ASTRO_SCAN_RANGE; if so
\* scan_dist is the least such distance (in whole units) and scan_angle, in
\* [0, 360), the bearing of something at that distance; the ship itself and
\* what is dead are not reported.
C29_Scan ==
    [][ Issued("Scan") /\ ships[lastOp'.self].alive =>
          LET self == lastOp'.self
              s == ships'[self]
              near == InScanRange(self)
          IN /\ s.scan_hit <=> near # {}
             /\ s.scan_hit =>
                   \E e \in near :
                      /\ \A f \in near : e.d2 <= f.d2
                      /\ s.scan_dist = FloorSqrt(e.d2)
                      /\ s.scan_angle = e.angle % 360
                      /\ s.scan_angle >= 0 /\ s.scan_angle < 360 ]_vars

\* A scan has reported something at the bearing 270, which the code computes
\* as -90, although a dead asteroid lay nearer.
C29_Witness ==
    /\ lastOp.op = "Scan"
    /\ LET s == ships[lastOp.self]
       IN /\ s.alive /\ s.scan_hit
          /\ s.scan_angle = 270
          /\ \E j \in 1..Len(asteroids) :
                /\ ~asteroids[j].alive
                /\ Distance2(s.x, s.y, asteroids[j].x, asteroids[j].y) < s.scan_dist * s.scan_dist

\* C24: in every turn each alive ship's program starts at instruction 0 with
\* a fresh flag and runs until END or the end of the array, and what a ship
\* issues in a run depends on its program and the state the run began in
\* only: two runs of a ship that began in the same state issued the same
\* calls, wherever the earlier run left its program counter and flag.
C24_RunsFromTheStart ==
    /\ [][ probe'.running /\ ~probe.running =>
             /\ ships[probe'.ship].alive
             /\ probe'.pc = 0 /\ ~probe'.flag ]_vars
    /\ [][ probe.running /\ ~probe'.running =>
             \/ probe.pc >= Len(probe.code[probe.ship])
             \/ probe.code[probe.ship][probe.pc + 1].op = "END" ]_vars
    /\ [](\A i \in DOMAIN probe.runs, j \in DOMAIN probe.runs :
             probe.runs[i].ship = probe.runs[j].ship /\ probe.runs[i].start = probe.runs[j].start
                => probe.runs[i].acts = probe.runs[j].acts)

\* Two runs of a ship have ended that began in the same state and issued
\* something, the first having stopped short of the end of its program.
C24_Witness ==
    \E i \in DOMAIN probe.runs, j \in DOMAIN probe.runs :
       /\ i < j
       /\ probe.runs[i].ship = probe.runs[j].ship
       /\ probe.runs[i].start = probe.runs[j].start
       /\ probe.runs[i].acts # <<>>
       /\ probe.code[probe.runs[i].ship] = Beacon

\* The jumps of the program of ship k have their targets within the array.
TargetsWithin(k) ==
    \A n \in DOMAIN probe.code[k] :
       probe.code[k][n].op \in JumpOps =>
          probe.code[k][n].arg >= 0 /\ probe.code[k][n].arg < Len(probe.code[k])

\* The jumps of the program of ship k jump ahead.
JumpsAhead(k) ==
    \A n \in DOMAIN probe.code[k] :
       probe.code[k][n].op \in JumpOps => probe.code[k][n].arg > n - 1

Runs(k) == VMRunning /\ probe.ship = k

\* C25 as stated: the run of a program whose jumps have their targets within
\* the array comes to an end.
C25_EveryRunEnds ==
    \A k \in 1..2 : (Runs(k) /\ TargetsWithin(k)) ~> ~Runs(k)

\* C25: the run of a program whose jumps have their targets within the array
\* and ahead of the jump comes to an end, and when all the programs are such
\* the turn goes on to the physics and the collision passes.
C25_ForwardRunEnds ==
    /\ \A k \in 1..2 : (Runs(k) /\ TargetsWithin(k) /\ JumpsAhead(k)) ~> ~Runs(k)
    /\ (phase = "ops" /\ \A k \in 1..2 : TargetsWithin(k) /\ JumpsAhead(k))
          ~> (phase = "collisions")

\* The run of a program that took a jump has ended, and the turn has gone on.
C25_Witness ==
    /\ phase = "collisions"
    /\ \E i \in DOMAIN probe.runs :
          /\ probe.code[probe.runs[i].ship] = Hunter
          /\ Ins("TURN_TO_SCAN", 0) \in {probe.runs[i].acts[n] : n \in DOMAIN probe.runs[i].acts}

\* The segments that outlive a step of UpdatePhysics.
Outlives(d) == d.alive /\ d.lifetime > 1

\* C26: after every UpdatePhysics no stored debris segment is dead (each is
\* alive with a lifetime of at least 1); the step removes the segments whose
\* lifetime reaches 0 in it and no other, and the segments that stay keep
\* their order.
C26_DebrisCompacted ==
    /\ [](lastOp.op = "UpdatePhysics" =>
             \A n \in 1..Len(shipDebris) : shipDebris[n].alive /\ shipDebris[n].lifetime >= 1)
    /\ [][ lastOp'.op = "UpdatePhysics" =>
             LET kept == SelectSeq(shipDebris, Outlives)
             IN shipDebris' = [n \in 1..Len(kept) |-> [kept[n] EXCEPT !.lifetime = @ - 1]] ]_vars

\* A step of UpdatePhysics has removed segments before others that stay.
C26_Witness ==
    /\ lastOp.op = "UpdatePhysics"
    /\ Len(shipDebris) > 0 /\ Len(shipDebris) < 3 * SHIP_DEBRIS_COUNT_PER_EDGE
    /\ \E n \in 1..Len(shipDebris) : shipDebris[n].lifetime # shipDebris[1].lifetime

\* The impacts a torpedo's loops met at the earliest time of impact of all,
\* as places in the order the loops met them (ships first, then asteroids).
Earliest(seen) ==
    {k \in DOMAIN seen : \A j \in DOMAIN seen : seen[k].toi <= seen[j].toi}

LastOf(S) == CHOOSE k \in S : \A j \in S : j <= k

\* C27: of the candidates of a torpedo with the earliest time of impact the
\* one its loops meet last is hit; ships being met before asteroids, an
\* asteroid is hit rather than a ship with the same time of impact, and that
\* ship loses no hit point to the torpedo.
C27_TieBreak ==
    [][ lastOp'.op = "HandleTorpedoes" =>
          \A n \in DOMAIN impacts' :
             LET im == impacts'[n]
                 first == Earliest(im.seen)
                 hit == im.seen[LastOf(first)]
             IN /\ first # {}
                /\ im.toi = hit.toi /\ im.hitType = hit.kind /\ im.hitIndex = hit.index
                /\ (\E k \in first : im.seen[k].kind = "ast") =>
                      /\ im.hitType = "ast"
                      /\ Len(impacts') = 1 =>
                            \A k \in first : im.seen[k].kind = "ship" =>
                               ships'[im.seen[k].index].hp = ships[im.seen[k].index].hp ]_vars

\* A torpedo met a ship and an asteroid at the same, earliest, time of impact.
C27_Witness ==
    /\ lastOp.op = "HandleTorpedoes"
    /\ \E n \in DOMAIN impacts :
          LET first == Earliest(impacts[n].seen)
          IN /\ \E k \in first : impacts[n].seen[k].kind = "ship"
             /\ \E k \in first : impacts[n].seen[k].kind = "ast"
             /\ impacts[n].hitType = "ast"

\* The tests of the collision pass that starts in this state, in its order.
PassTests ==
    CollisionTests(ships, BinAlive(asteroids, 1, GridDim(ASTROBOTS_W), GridDim(ASTROBOTS_H)),
                   GridDim(ASTROBOTS_W), GridDim(ASTROBOTS_H), 1)

\* Test k of the pass finds its asteroid alive: fewer overlapping tests came
\* before it on that asteroid than the asteroid had hit points.
AsteroidAliveAt(k, overlaps) ==
    Cardinality({j \in 1..(k - 1) : PassTests[j][2] = PassTests[k][2] /\ PassTests[j] \in overlaps})
       < asteroids[PassTests[k][2]].hp

\* Test k of the pass finds its ship alive too.
ShipAliveAt(k, overlaps) ==
    Cardinality({j \in 1..(k - 1) : /\ PassTests[j][1] = PassTests[k][1]
                                    /\ PassTests[j] \in overlaps
                                    /\ AsteroidAliveAt(j, overlaps)})
       < ships[PassTests[k][1]].hp

\* The tests of overlapping pairs that find both the ship and the asteroid alive.
BothAlive(overlaps) ==
    {k \in 1..Len(PassTests) :
        PassTests[k] \in overlaps /\ AsteroidAliveAt(k, overlaps) /\ ShipAliveAt(k, overlaps)}

\* The tests of overlapping pairs that find the asteroid alive and the ship dead.
OnDeadShip(overlaps) ==
    {k \in 1..Len(PassTests) :
        PassTests[k] \in overlaps /\ AsteroidAliveAt(k, overlaps) /\ ~ShipAliveAt(k, overlaps)}

StartHp(size) ==
    IF size > MEDIUM_ASTEROID_SIZE THEN LARGE_ASTEROID_HP
    ELSE IF size > SMALL_ASTEROID_SIZE THEN MEDIUM_ASTEROID_HP
    ELSE SMALL_ASTEROID_HP

\* C28: a collision pass tests a pair of a ship and an asteroid at most once;
\* every test of an overlapping pair that finds both alive takes 1 hit point
\* from the ship and 1 from the asteroid (so a ship that comes out alive, and
\* an asteroid no dead ship was tested against, have lost as many as such
\* tests); an asteroid whose hit points reach 0 is flagged dead and, unless
\* small, leaves fragments; and the fragments of the pass are not tested in
\* it: they come out alive with the hit points of their size.
C28_CollisionPass ==
    [][ lastOp'.op = "HandleCollisions" =>
          LET overlaps == lastOp'.arg
              both == BothAlive(overlaps)
              dead == OnDeadShip(overlaps)
          IN /\ \A j \in 1..Len(PassTests), k \in 1..Len(PassTests) :
                   PassTests[j] = PassTests[k] => j = k
             /\ \A i \in ShipIds :
                   LET n == Cardinality({k \in both : PassTests[k][1] = i})
                   IN /\ ships[i].hp - ships'[i].hp >= n
                      /\ ships'[i].alive => ships[i].hp - ships'[i].hp = n
             /\ \A a \in 1..Len(asteroids) :
                   LET n == Cardinality({k \in both : PassTests[k][2] = a})
                   IN /\ asteroids[a].hp - asteroids'[a].hp >= n
                      /\ (\A k \in dead : PassTests[k][2] # a)
                            => asteroids[a].hp - asteroids'[a].hp = n
                      /\ asteroids[a].alive /\ asteroids'[a].hp <= 0 =>
                            /\ ~asteroids'[a].alive
                            /\ asteroids[a].size > SMALL_ASTEROID_SIZE =>
                                  \E f \in (Len(asteroids) + 1)..Len(asteroids') :
                                     asteroids'[f].parent = a
             /\ \A f \in (Len(asteroids) + 1)..Len(asteroids') :
                   asteroids'[f].alive /\ asteroids'[f].hp = StartHp(asteroids'[f].size) ]_vars

\* A pass has taken a hit point from a ship that lives on and the last one
\* from an asteroid, whose fragments lie under the ship untouched.
C28_Witness ==
    /\ lastOp.op = "HandleCollisions"
    /\ \E p \in lastOp.arg :
          /\ ships[p[1]].alive /\ ships[p[1]].hp < ASTRO_START_HP
          /\ ~asteroids[p[2]].alive /\ asteroids[p[2]].hp = 0
          /\ \E f \in 1..Len(asteroids) :
                /\ asteroids[f].parent = p[2] /\ asteroids[f].alive
                /\ MustOverlap(ships[p[1]], asteroids[f])

\* C30: once the match is over no further turn begins until Reset Game, which
\* sets gameOver to false and gameWinner to -1.
C30_NoTurnOnceOver ==
    [][ gameOver => \/ turn' = turn
                    \/ ~gameOver' /\ gameWinner' = -1 /\ turn' = 0 ]_vars

\* The ships, asteroids and torpedoes that are not alive.
DeadShips == {i \in ShipIds : ~ships[i].alive}

DeadAsteroids == {j \in 1..Len(asteroids) : ~asteroids[j].alive}

DeadTorpedoes == {n \in 1..Len(torpedoes) : ~torpedoes[n].alive}

\* C31: no operation sets the alive flag of a dead ship, asteroid or torpedo
\* back to true (nor takes the entity from its place); KillShip applied to a
\* dead ship and BreakAsteroid applied to a dead asteroid change nothing, and
\* no operation gives the dead a second destruction line, second debris or
\* second fragments.
C31_DeadStaysDead ==
    [][ /\ Len(asteroids') >= Len(asteroids)
        /\ Len(torpedoes') >= Len(torpedoes)
        /\ \A i \in DeadShips : ~ships'[i].alive
        /\ \A j \in DeadAsteroids : ~asteroids'[j].alive
        /\ \A n \in DeadTorpedoes : ~torpedoes'[n].alive
        /\ \A i \in DeadShips, rnd \in Rnds, kind \in {"destroyed", "destroyed by asteroid"} :
              KillShip(World, i, kind, rnd.jitter) = World
        /\ \A j \in DeadAsteroids, rnd \in Rnds, i \in ShipIds :
              BreakAsteroid(World, j, ships[i].x, ships[i].y, rnd) = World
        /\ \A i \in DeadShips :
              \A n \in (Len(log) + 1)..Len(log') :
                 ~(log'[n].kind \in {"destroyed", "destroyed by asteroid"} /\ log'[n].who = i)
        /\ DeadShips = {i \in ShipIds : ~ships'[i].alive} =>
              Len(shipDebris') <= Len(shipDebris)
        /\ \A j \in DeadAsteroids : Children(j) = {} ]_vars

\* A ship, an asteroid and a torpedo are dead and a turn has begun over them.
C31_Witness ==
    /\ lastOp.op = "StartTurn"
    /\ DeadShips # {} /\ DeadAsteroids # {} /\ DeadTorpedoes # {}

\* C32: a ship that is not alive keeps its hp and damages no asteroid: a ship
\* destroyed in a collision pass comes out of it with hp 0, and every
\* asteroid has lost in the pass as many hit points as overlapping tests
\* found both it and their ship alive.
C32_DeadShipInert ==
    [][ /\ \A i \in DeadShips : ships'[i].hp = ships[i].hp
        /\ lastOp'.op = "HandleCollisions" =>
              /\ \A i \in ShipIds \ DeadShips : ~ships'[i].alive => ships'[i].hp = 0
              /\ \A a \in 1..Len(asteroids) :
                    asteroids[a].hp - asteroids'[a].hp
                       = Cardinality({k \in BothAlive(lastOp'.arg) : PassTests[k][2] = a}) ]_vars

\* C33: no operation changes the fuel of a ship that is not alive.
C33_DeadShipFuel ==
    [][ \A i \in DeadShips : ships'[i].fuel = ships[i].fuel ]_vars

\* The position lies in the arena.
InArena(e) == e.x >= 0 /\ e.x < ASTROBOTS_W /\ e.y >= 0 /\ e.y < ASTROBOTS_H

\* C34: after every UpdatePhysics step every alive ship and every alive
\* asteroid, the fragments of broken asteroids among them, lies in the arena
\* (0 <= x < ASTROBOTS_W, 0 <= y < ASTROBOTS_H); a torpedo is never wrapped:
\* a step leaves its position alone or adds its velocity to it.
C34_Wrapped ==
    /\ [](lastOp.op = "UpdatePhysics" =>
             /\ \A i \in ShipIds : ships[i].alive => InArena(ships[i])
             /\ \A j \in 1..Len(asteroids) : asteroids[j].alive => InArena(asteroids[j]))
    /\ [][ \A n \in 1..Len(torpedoes) :
              \/ torpedoes'[n].x = torpedoes[n].x /\ torpedoes'[n].y = torpedoes[n].y
              \/ /\ lastOp'.op = "UpdatePhysics"
                 /\ torpedoes'[n].x = torpedoes[n].x + torpedoes[n].vx
                 /\ torpedoes'[n].y = torpedoes[n].y + torpedoes[n].vy ]_vars

\* UpdatePhysics has carried a ship over the right edge to the left one and
\* a fragment over the left edge to the right one, and has moved a torpedo
\* that is alive out of the arena.
C34_Witness ==
    /\ lastOp.op = "UpdatePhysics"
    /\ \E i \in ShipIds : ships[i].alive /\ ships[i].vx > 0 /\ ships[i].x < gridCellSize
    /\ \E j \in 1..Len(asteroids) :
          asteroids[j].alive /\ asteroids[j].parent # 0
             /\ asteroids[j].x > asteroids[asteroids[j].parent].x
             /\ asteroids[j].vx < 0
    /\ \E n \in 1..Len(torpedoes) : torpedoes[n].alive /\ ~InArena(torpedoes[n])
====
